---- MODULE Spec2Model ----
(***************************************************************************)
(* The lwIP bridge of the Anywhere network extension (lwip_bridge.c) as a  *)
(* state machine.  An entry point of lwip_bridge.h is one action; the      *)
(* entry points are serialized on one queue, so an action is one whole     *)
(* call, including every callback the engine raises synchronously inside   *)
(* it.  The bridge's callbacks (tcp_accept_cb, tcp_recv_cb, tcp_sent_cb,   *)
(* tcp_err_cb, udp_recv_cb) are operators translated from the source.  The *)
(* TCP/IP engine the bridge drives (lwIP: ip_input, tcp_input, tcp_abort,  *)
(* tcp_close, the timers) is not part of the bridge's sources; its         *)
(* operators follow the engine contract of the specification, sections 4.1 *)
(* and 4.2.  The pass-through entry points (tcp_output, tcp_recved,        *)
(* tcp_sndbuf) change nothing the modelled callbacks read and have no      *)
(* action here.  The interface's output functions are called directly, as  *)
(* the engine calls them for each packet it sends.  The two pure functions *)
(* of VLESS/CVLESS.c are operators applied to arguments drawn at the start.*)
(*                                                                         *)
(* The variable trace holds, in order, what the last entry point did: the  *)
(* events the engine raised, the external callbacks the bridge called with *)
(* their arguments, the buffers it allocated and released.                 *)
(*                                                                         *)
(* Specifications:                                                         *)
(*   Spec     TCP, one connection at a time, callbacks registered and      *)
(*            unregistered at any time                                     *)
(*   SpecTcp  TCP, two connections at a time (IPv4 and IPv6), all TCP      *)
(*            callbacks registered                                         *)
(*   SpecUdp  UDP datagrams and refused packets of every shape             *)
(*   SpecCb   tcp_recv_cb, udp_recv_cb, netif_output_ip4 and               *)
(*            netif_output_ip6 called with every argument shape            *)
(*   SpecSend lwip_bridge_udp_sendto with every length and failure         *)
(*   SpecVless build_vless_request_header and parse_ipv4_address           *)
(***************************************************************************)
EXTENDS Integers, Sequences, FiniteSets, TLC

\* Bounds of the model.
MaxPcb == 2         \* TCP connection slots of the engine's pool
MaxFlows == 2       \* connection attempts (SYN packets taken) in one run
MaxUnacked == 1     \* bytes written by the relay layer and not yet acknowledged
MaxGroups == 5      \* dot-separated groups of a text given to parse_ipv4_address

NULL == 0

\* ------------------------------------------------------------------------
\* Addresses, ports, packets
\* ------------------------------------------------------------------------

IPADDR_TYPE_V4 == 0
IPADDR_TYPE_V6 == 6

\* ip_addr_t: the type tag and the address bytes.
Ip4(a, b, c, d) == [type |-> IPADDR_TYPE_V4, bytes |-> <<a, b, c, d>>]
Ip6(lo) == [type |-> IPADDR_TYPE_V6,
            bytes |-> <<32, 1, 13, 184, 0, 0, 0, 0, 0, 0, 0, 0, 0, 0, 0, lo>>]

\* A zero-initialised static ip_addr_t.
IpZero == Ip4(0, 0, 0, 0)

Src4 == Ip4(10, 0, 0, 9)
Src6 == Ip6(9)
Dst4 == {Ip4(10, 0, 0, 1), Ip4(10, 0, 0, 2)}
Dst6 == {Ip6(1), Ip6(2)}
DstPorts == {1, 2}

IP_IS_V6(addr) == addr.type = IPADDR_TYPE_V6

\* Bytes used in payloads.
Segs1 == {<< <<1>> >>}
Segs2 == {<< <<1>>, <<2>> >>}

RECURSIVE Flatten(_)
Flatten(segs) == IF segs = <<>> THEN <<>> ELSE Head(segs) \o Flatten(Tail(segs))

\* A pbuf (chain): p->next != NULL iff it has more than one segment.
NoPbuf == [null |-> TRUE, segs |-> <<>>]
Pbuf(segs) == [null |-> FALSE, segs |-> segs]
tot_len(p) == Len(Flatten(p.segs))
payload(p) == p.segs[1]
HasNext(p) == Len(p.segs) > 1

\* pbuf_copy_partial(p, buf, len, 0): the first len bytes of the chain.
pbuf_copy_partial(p, len) == SubSeq(Flatten(p.segs), 1, len)

\* What a callee reads through a (pointer, length) pair.
ReadBytes(mem, len) == SubSeq(mem, 1, len)

\* ------------------------------------------------------------------------
\* A raw packet as passed to lwip_bridge_input(data, len).
\*   isNull  data == NULL
\*   len     the len argument
\*   ver     the version nibble, pkt[0] >> 4
\*   hl      IPv4: (pkt[0] & 0x0F) * 4
\*   proto   IPv4: pkt[9]; IPv6: pkt[6] (the first next-header)
\*   src,dst the address fields of the IP header
\*   ext     IPv6: number of 8-byte hop-by-hop headers before the transport
\*           header (proto = 0 then), 0 otherwise
\*   l4      the transport protocol after the extension headers
\*   sport, dport  the ports of the transport header
\*   kind    TCP: the segment kind
\*   segs    the payload as the engine's pool lays it out
\*   fin     TCP data segment carrying FIN
\*   n       TCP: acknowledged bytes
\* ------------------------------------------------------------------------
PROTO_UDP == 17
PROTO_TCP == 6
PROTO_HOPOPTS == 0

Pkt(ver, len, hl, proto, ext, l4, src, dst, dport, kind, segs, fin, n) ==
  [isNull |-> FALSE, len |-> len, ver |-> ver, hl |-> hl, proto |-> proto,
   ext |-> ext, l4 |-> l4, src |-> src, dst |-> dst, sport |-> 7,
   dport |-> dport, kind |-> kind, segs |-> segs, fin |-> fin, n |-> n]

\* The addressing of a packet as the engine reads it from the IP header and
\* the transport header: <<src, sport, dst, dport, is_ipv6>>.
PktTuple(pkt) ==
  <<pkt.src.bytes, pkt.sport, pkt.dst.bytes, pkt.dport, IF pkt.ver = 6 THEN 1 ELSE 0>>

UdpPackets ==
  { Pkt(4, hl + 8 + Len(Flatten(s)), hl, PROTO_UDP, 0, PROTO_UDP, Src4, d, p, "udp", s, FALSE, 0) :
      hl \in {20, 24}, d \in Dst4, p \in DstPorts, s \in Segs1 \cup Segs2 }
  \cup
  { Pkt(6, 48 + Len(Flatten(s)), 40, PROTO_UDP, 0, PROTO_UDP, Src6, d, p, "udp", s, FALSE, 0) :
      d \in Dst6, p \in DstPorts, s \in Segs1 \cup Segs2 }
  \cup  \* a hop-by-hop header before the UDP header
  { Pkt(6, 56 + Len(Flatten(s)), 40, PROTO_HOPOPTS, 1, PROTO_UDP, Src6, d, p, "udp", s, FALSE, 0) :
      d \in Dst6, p \in DstPorts, s \in Segs1 }
  \cup  \* short UDP packets: the UDP header is cut
  { Pkt(4, 24, 20, PROTO_UDP, 0, PROTO_UDP, Src4, d, p, "udp", <<>>, FALSE, 0) :
      d \in Dst4, p \in DstPorts }
  \cup
  { Pkt(6, 44, 40, PROTO_UDP, 0, PROTO_UDP, Src6, d, p, "udp", <<>>, FALSE, 0) :
      d \in Dst6, p \in DstPorts }

TcpKinds == {"SYN", "ACK", "DATA", "FIN", "RST", "ACKDATA"}

TcpPacket(v6, d, p, kind, segs, fin, n) ==
  IF v6
  THEN Pkt(6, 60 + Len(Flatten(segs)), 40, PROTO_TCP, 0, PROTO_TCP, Src6, d, p, kind, segs, fin, n)
  ELSE Pkt(4, 40 + Len(Flatten(segs)), 20, PROTO_TCP, 0, PROTO_TCP, Src4, d, p, kind, segs, fin, n)

\* The connections of the model: <<IPv6?, destination address, destination port>>.
TcpKeys == { <<FALSE, Ip4(10, 0, 0, 1), 1>>, <<TRUE, Ip6(1), 2>> }

TcpPacketsOf(keys) ==
  { TcpPacket(k[1], k[2], k[3], kind, <<>>, FALSE, 0) :
      k \in keys, kind \in {"SYN", "ACK", "FIN", "RST"} }
  \cup
  { TcpPacket(k[1], k[2], k[3], "DATA", s, f, 0) :
      k \in keys, s \in Segs1 \cup Segs2, f \in BOOLEAN }
  \cup
  { TcpPacket(k[1], k[2], k[3], "ACKDATA", <<>>, FALSE, n) :
      k \in keys, n \in 1..MaxUnacked }

TcpPackets == TcpPacketsOf(TcpKeys)

\* Packets lwip_bridge_input refuses before the engine sees them.
BadPackets ==
  { [Pkt(4, 0, 20, PROTO_UDP, 0, PROTO_UDP, Src4, Ip4(10, 0, 0, 1), 1, "udp", <<>>, FALSE, 0)
       EXCEPT !.isNull = TRUE],
    Pkt(4, 0, 20, PROTO_UDP, 0, PROTO_UDP, Src4, Ip4(10, 0, 0, 1), 1, "udp", <<>>, FALSE, 0),
    Pkt(4, 19, 20, PROTO_UDP, 0, PROTO_UDP, Src4, Ip4(10, 0, 0, 1), 1, "udp", <<>>, FALSE, 0),
    Pkt(6, 39, 40, PROTO_UDP, 0, PROTO_UDP, Src6, Ip6(1), 1, "udp", <<>>, FALSE, 0),
    Pkt(5, 60, 20, PROTO_UDP, 0, PROTO_UDP, Src4, Ip4(10, 0, 0, 1), 1, "udp", <<>>, FALSE, 0) }

\* The segments of one connection.
FewPackets == TcpPacketsOf({ <<FALSE, Ip4(10, 0, 0, 1), 1>> })

\* ------------------------------------------------------------------------
\* State
\* ------------------------------------------------------------------------
VARIABLES
  s_output_fn,            \* TRUE iff a callback is registered (non-NULL)
  s_tcp_accept_fn,
  s_tcp_recv_fn,
  s_tcp_sent_fn,
  s_tcp_err_fn,
  s_udp_recv_fn,
  tun_netif,              \* "unset", "up" (added and up), "removed"
  tcp_listen_pcb_v4,      \* NULL or the listener
  tcp_listen_pcb_v6,
  udp_listen_pcb_v4,
  udp_listen_pcb_v6,
  udp_pcbs,               \* the engine's UDP contexts in use (names)
  s_current_udp_dst_port, \* the UDP-destination scratch state
  s_current_udp_dst_ip,
  pcbs,                   \* the engine's TCP connection pool: slot -> pcb
  tcp_active_pcbs,        \* the engine's list of active connections (slots)
  tcp_tw_pcbs,            \* the engine's list of TIME_WAIT connections
  nextFid,                \* (history) number of the next connection attempt
  life,                   \* (history) what has happened to each flow
  trace                   \* (history) what the last entry point did, in order

fns == <<s_output_fn, s_tcp_accept_fn, s_tcp_recv_fn, s_tcp_sent_fn, s_tcp_err_fn, s_udp_recv_fn>>
listeners == <<tcp_listen_pcb_v4, tcp_listen_pcb_v6, udp_listen_pcb_v4, udp_listen_pcb_v6>>
scratch == <<s_current_udp_dst_port, s_current_udp_dst_ip>>
tcpState == <<pcbs, tcp_active_pcbs, tcp_tw_pcbs>>
vars == <<fns, tun_netif, listeners, udp_pcbs, scratch, tcpState, nextFid, life, trace>>

Slots == 1..MaxPcb
Flows == 1..MaxFlows

\* A free slot of the pool.
FreePcb == [state |-> "FREE", local_ip |-> IpZero, local_port |-> 0,
            remote_ip |-> IpZero, remote_port |-> 0,
            callback_arg |-> NULL, recv |-> "NULL", sent |-> "NULL", errf |-> "NULL",
            unacked |-> 0, fid |-> 0, syn |-> <<>>]

\* One entry of trace.
\*   op    what happened            fid   the flow the engine raised it on
\*   arg   the handle passed        data  the bytes passed
\*   n     a length                 err   an error or return code
\*   tup   <<src, sport, dst, dport, is_ipv6>> of accept and datagram calls
Ev(op) == [op |-> op, fid |-> 0, arg |-> NULL, data |-> <<>>, n |-> 0,
           err |-> "", tup |-> <<>>]

\* The engine tags what a callback did with the flow it raised the event on.
Tag(eff, fid) == [i \in DOMAIN eff |-> [eff[i] EXCEPT !.fid = fid]]

RECURSIVE Remove(_, _)
Remove(list, x) ==
  IF list = <<>> THEN <<>>
  ELSE IF Head(list) = x THEN Tail(list)
  ELSE <<Head(list)>> \o Remove(Tail(list), x)

InList(list, x) == \E i \in DOMAIN list : list[i] = x

\* ------------------------------------------------------------------------
\* The bridge's TCP callbacks.  Each yields what it did (eff) and what it
\* returned to the engine (ret); tcp_accept_cb also changes the connection.
\* ------------------------------------------------------------------------

\* Variant of ip_addr_to_bytes: every address is read as an IPv4 address.
ip_addr_to_bytes_v4(addr) == [out |-> SubSeq(addr.bytes, 1, 4), is_ipv6 |-> 0]

\* ip_addr_to_bytes: the raw address bytes and the family flag.
ip_addr_to_bytes(addr) ==
  IF IP_IS_V6(addr)
  THEN [out |-> SubSeq(addr.bytes, 1, 16), is_ipv6 |-> 1]
  ELSE [out |-> SubSeq(addr.bytes, 1, 4), is_ipv6 |-> 0]

\* Variant of tcp_err_cb: the error code is not forwarded.
tcp_err_cb_abrt(arg, err) ==
  IF arg /= NULL /\ s_tcp_err_fn
  THEN << [Ev("tcp_err_fn") EXCEPT !.arg = arg, !.err = "ERR_ABRT"] >>
  ELSE <<>>

\* tcp_err_cb(arg, err)
tcp_err_cb(arg, err) ==
  IF arg /= NULL /\ s_tcp_err_fn
  THEN << [Ev("tcp_err_fn") EXCEPT !.arg = arg, !.err = err] >>
  ELSE <<>>

\* tcp_sent_cb(arg, tpcb, len)
tcp_sent_cb(arg, len) ==
  [eff |-> IF arg /= NULL /\ s_tcp_sent_fn
           THEN << [Ev("tcp_sent_fn") EXCEPT !.arg = arg, !.n = len] >>
           ELSE <<>>,
   ret |-> "ERR_OK"]

\* The end-of-stream call of tcp_recv_cb (p == NULL).
RecvEof(arg) ==
  IF s_tcp_recv_fn
  THEN << [Ev("tcp_recv_fn") EXCEPT !.arg = arg, !.data = <<>>, !.n = 0, !.err = "NULL"] >>
  ELSE <<>>

\* Variant of DeliverTcp: the first buffer of a chain is passed as if it were
\* the whole data.
DeliverTcp_first(arg, p, mem) ==
  IF s_tcp_recv_fn
  THEN << [Ev("tcp_recv_fn") EXCEPT !.arg = arg,
             !.data = ReadBytes(payload(p), Len(payload(p))), !.n = Len(payload(p))] >>
  ELSE <<>>

\* The data call of tcp_recv_cb: a chained buffer is copied into one
\* temporary buffer first, and nothing is called when that cannot be had.
DeliverTcp(arg, p, mem) ==
  IF s_tcp_recv_fn
  THEN IF HasNext(p)
       THEN IF mem
            THEN LET buf == pbuf_copy_partial(p, tot_len(p))
                 IN << [Ev("mem_malloc") EXCEPT !.n = tot_len(p)],
                       [Ev("tcp_recv_fn") EXCEPT !.arg = arg,
                          !.data = ReadBytes(buf, tot_len(p)), !.n = tot_len(p)],
                       Ev("mem_free") >>
            ELSE << [Ev("mem_malloc") EXCEPT !.n = tot_len(p), !.err = "NULL"] >>
       ELSE << [Ev("tcp_recv_fn") EXCEPT !.arg = arg,
                  !.data = ReadBytes(payload(p), tot_len(p)), !.n = tot_len(p)] >>
  ELSE <<>>

\* Variant of tcp_recv_cb: the buffer is not released when there is no handle.
tcp_recv_cb_keep(arg, p, mem) ==
  IF arg = NULL
  THEN [eff |-> <<>>, ret |-> "ERR_ABRT"]
  ELSE IF p.null
  THEN [eff |-> RecvEof(arg), ret |-> "ERR_OK"]
  ELSE [eff |-> DeliverTcp(arg, p, mem) \o << Ev("pbuf_free") >>, ret |-> "ERR_OK"]

\* tcp_recv_cb(arg, tpcb, p, err); mem: whether mem_malloc succeeds.
tcp_recv_cb(arg, p, mem) ==
  IF arg = NULL
  THEN [eff |-> IF ~p.null THEN << Ev("pbuf_free") >> ELSE <<>>,
        ret |-> "ERR_ABRT"]
  ELSE IF p.null
  THEN [eff |-> RecvEof(arg), ret |-> "ERR_OK"]
  ELSE [eff |-> DeliverTcp(arg, p, mem) \o << Ev("pbuf_free") >>, ret |-> "ERR_OK"]

\* ------------------------------------------------------------------------
\* The engine's connection table.  C is the state an entry point threads
\* through its calls: [pcbs, act, tw, eff].
\* ------------------------------------------------------------------------

Emit(C, eff) == [C EXCEPT !.eff = @ \o eff]

\* TCP_EVENT_ERR: the engine reports an error on a connection it has freed.
TCP_EVENT_ERR(C, errf, arg, err, fid) ==
  Emit(C, << [Ev("TCP_EVENT_ERR") EXCEPT !.fid = fid, !.err = err] >>
          \o (IF errf = "tcp_err_cb" THEN Tag(tcp_err_cb(arg, err), fid) ELSE <<>>))

\* The engine unlinks a connection from its list and frees its slot.
tcp_free(C, slot) ==
  [C EXCEPT !.pcbs[slot] = FreePcb,
            !.act = Remove(@, slot),
            !.tw = Remove(@, slot),
            !.eff = Append(@, [Ev("tcp_free") EXCEPT !.fid = C.pcbs[slot].fid])]

\* tcp_abort(pcb): a TIME_WAIT connection is freed silently; any other is
\* freed and then its error callback is called with ERR_ABRT.
tcp_abort(C, slot) ==
  LET pcb == C.pcbs[slot]
      C1 == Emit(C, << [Ev("tcp_abort") EXCEPT !.fid = pcb.fid] >>)
  IN IF pcb.state = "TIME_WAIT"
     THEN tcp_free(C1, slot)
     ELSE TCP_EVENT_ERR(tcp_free(C1, slot), pcb.errf, pcb.callback_arg, "ERR_ABRT", pcb.fid)

\* The call of the external accept callback by tcp_accept_cb: the remote and
\* the local address and port of the new connection, and the family.
AcceptCall(pcb, conn) ==
  LET src == ip_addr_to_bytes(pcb.remote_ip)
      dst == ip_addr_to_bytes(pcb.local_ip)
  IN [Ev("tcp_accept_fn") EXCEPT
        !.fid = pcb.fid, !.arg = conn,
        !.tup = <<src.out, pcb.remote_port, dst.out, pcb.local_port, dst.is_ipv6>>]

\* Variant of BindCallbacks: the connection itself is registered as argument.
BindCallbacks_pcb(C, newpcb, conn) ==
  LET fid == C.pcbs[newpcb].fid
  IN [Emit(C, << [Ev("tcp_arg") EXCEPT !.fid = fid, !.arg = newpcb],
                 [Ev("tcp_recv") EXCEPT !.fid = fid],
                 [Ev("tcp_sent") EXCEPT !.fid = fid],
                 [Ev("tcp_err") EXCEPT !.fid = fid] >>)
        EXCEPT !.pcbs[newpcb].callback_arg = newpcb,
               !.pcbs[newpcb].recv = "tcp_recv_cb",
               !.pcbs[newpcb].sent = "tcp_sent_cb",
               !.pcbs[newpcb].errf = "tcp_err_cb"]

\* tcp_arg(newpcb, conn); tcp_recv, tcp_sent, tcp_err with the bridge's
\* callbacks.
BindCallbacks(C, newpcb, conn) ==
  LET fid == C.pcbs[newpcb].fid
  IN [Emit(C, << [Ev("tcp_arg") EXCEPT !.fid = fid, !.arg = conn],
                 [Ev("tcp_recv") EXCEPT !.fid = fid],
                 [Ev("tcp_sent") EXCEPT !.fid = fid],
                 [Ev("tcp_err") EXCEPT !.fid = fid] >>)
        EXCEPT !.pcbs[newpcb].callback_arg = conn,
               !.pcbs[newpcb].recv = "tcp_recv_cb",
               !.pcbs[newpcb].sent = "tcp_sent_cb",
               !.pcbs[newpcb].errf = "tcp_err_cb"]

\* Variant of tcp_accept_cb: a refused connection is left to the engine.
tcp_accept_cb_leave(C, newpcb, conn) ==
  IF ~s_tcp_accept_fn \/ newpcb = NULL
  THEN [C |-> C, ret |-> "ERR_ABRT"]
  ELSE LET C1 == Emit(C, << AcceptCall(C.pcbs[newpcb], conn) >>)
       IN IF conn = NULL
          THEN [C |-> C1, ret |-> "ERR_ABRT"]
          ELSE [C |-> BindCallbacks(C1, newpcb, conn), ret |-> "ERR_OK"]

\* tcp_accept_cb(arg, newpcb, err); conn: what the external accept callback
\* returns when it is called.
tcp_accept_cb(C, newpcb, conn) ==
  IF ~s_tcp_accept_fn \/ newpcb = NULL
  THEN [C |-> C, ret |-> "ERR_ABRT"]
  ELSE LET C1 == Emit(C, << AcceptCall(C.pcbs[newpcb], conn) >>)
       IN IF conn = NULL
          THEN [C |-> tcp_abort(C1, newpcb), ret |-> "ERR_ABRT"]
          ELSE [C |-> BindCallbacks(C1, newpcb, conn), ret |-> "ERR_OK"]

\* ------------------------------------------------------------------------
\* The bridge's UDP callback.  G is the UDP-destination scratch state at the
\* time of the call: [port, ip].
\* ------------------------------------------------------------------------

\* udp_recv_cb(arg, pcb, p, addr, port); mem: whether mem_malloc succeeds.
udp_recv_cb(G, p, addr, port, mem) ==
  IF p.null \/ ~s_udp_recv_fn
  THEN IF ~p.null THEN << Ev("pbuf_free") >> ELSE <<>>
  ELSE LET src == ip_addr_to_bytes(addr)
           dst == ip_addr_to_bytes(G.ip)
           call(ptr) == [Ev("udp_recv_fn") EXCEPT
                           !.tup = <<src.out, port, dst.out, G.port, dst.is_ipv6>>,
                           !.data = ReadBytes(ptr, tot_len(p)), !.n = tot_len(p)]
       IN (IF HasNext(p)
           THEN IF mem
                THEN << [Ev("mem_malloc") EXCEPT !.n = tot_len(p)],
                        call(pbuf_copy_partial(p, tot_len(p))),
                        Ev("mem_free") >>
                ELSE << [Ev("mem_malloc") EXCEPT !.n = tot_len(p), !.err = "NULL"] >>
           ELSE << call(payload(p)) >>)
          \o << Ev("pbuf_free") >>

\* The body the two output functions of the interface share: the packet p
\* is given to the output callback as one byte sequence, with the flag of
\* its family.  mem: whether mem_malloc succeeds.
OutputPacket(p, mem, flag) ==
  IF ~s_output_fn \/ p.null
  THEN <<>>
  ELSE LET call(ptr) == [Ev("output_fn") EXCEPT
                           !.data = ReadBytes(ptr, tot_len(p)), !.n = tot_len(p),
                           !.arg = flag]
       IN IF HasNext(p)
          THEN IF mem
               THEN << [Ev("mem_malloc") EXCEPT !.n = tot_len(p)],
                       call(pbuf_copy_partial(p, tot_len(p))),
                       Ev("mem_free") >>
               ELSE << [Ev("mem_malloc") EXCEPT !.n = tot_len(p), !.err = "NULL"] >>
          ELSE << call(payload(p)) >>

\* netif_output_ip4(netif, p, ipaddr)
netif_output_ip4(p, mem) == [eff |-> OutputPacket(p, mem, 0), ret |-> "ERR_OK"]

\* Variant of netif_output_ip6: the flag of IPv4 is passed.
netif_output_ip6_flag0(p, mem) == [eff |-> OutputPacket(p, mem, 0), ret |-> "ERR_OK"]

\* netif_output_ip6(netif, p, ipaddr)
netif_output_ip6(p, mem) == [eff |-> OutputPacket(p, mem, 1), ret |-> "ERR_OK"]

\* ------------------------------------------------------------------------
\* The engine: how it raises events on the bridge's callbacks.
\* ------------------------------------------------------------------------

NullListener == [valid |-> FALSE, local_port |-> 0, cb |-> "NULL"]

\* A listener takes what is sent to its port; with local port 0 it takes
\* what is sent to any port (the catch-all lookup).
Listens(lpcb, port) == lpcb.valid /\ (lpcb.local_port = 0 \/ lpcb.local_port = port)

CallMark(name, fid, arg, p) ==
  [Ev(name) EXCEPT !.fid = fid, !.arg = arg,
                   !.data = IF p.null THEN <<>> ELSE Flatten(p.segs),
                   !.n = Len(p.segs),
                   !.err = IF p.null THEN "NULL" ELSE ""]
RetMark(name, fid, ret) == [Ev(name) EXCEPT !.fid = fid, !.err = ret]

\* tcp_close(pcb) of the engine.  how: "fin" the FIN is queued, "rst" unread
\* data makes the engine reset and free the connection, "err" it fails.
tcp_close(C, slot, how) ==
  LET st == C.pcbs[slot].state IN
  IF how = "err" THEN [C |-> C, ret |-> "ERR_MEM"]
  ELSE IF how = "rst" /\ st \in {"ESTABLISHED", "CLOSE_WAIT"}
  THEN [C |-> tcp_free(C, slot), ret |-> "ERR_OK"]
  ELSE [C |-> [C EXCEPT !.pcbs[slot].state =
                  CASE st \in {"SYN_RCVD", "ESTABLISHED"} -> "FIN_WAIT_1"
                    [] st = "CLOSE_WAIT" -> "LAST_ACK"
                    [] OTHER -> st],
        ret |-> "ERR_OK"]

\* TCP_EVENT_RECV: data for a connection.  Without a receive callback the
\* engine's default (tcp_recv_null) releases the data.
TCP_EVENT_RECV(C, slot, p, mem) ==
  LET pcb == C.pcbs[slot]
      C1 == Emit(C, << CallMark("TCP_EVENT_RECV", pcb.fid, pcb.callback_arg, p) >>)
  IN IF pcb.recv = "tcp_recv_cb"
     THEN LET r == tcp_recv_cb(pcb.callback_arg, p, mem)
          IN Emit(C1, << CallMark("call:tcp_recv_cb", pcb.fid, pcb.callback_arg, p) >>
                      \o Tag(r.eff, pcb.fid)
                      \o << RetMark("ret:tcp_recv_cb", pcb.fid, r.ret) >>)
     ELSE C1

\* TCP_EVENT_CLOSED: the remote end has sent FIN.
TCP_EVENT_CLOSED(C, slot, mem) ==
  LET pcb == C.pcbs[slot]
      C1 == Emit(C, << CallMark("TCP_EVENT_CLOSED", pcb.fid, pcb.callback_arg, NoPbuf) >>)
  IN IF pcb.recv = "tcp_recv_cb"
     THEN LET r == tcp_recv_cb(pcb.callback_arg, NoPbuf, mem)
          IN Emit(C1, << CallMark("call:tcp_recv_cb", pcb.fid, pcb.callback_arg, NoPbuf) >>
                      \o Tag(r.eff, pcb.fid)
                      \o << RetMark("ret:tcp_recv_cb", pcb.fid, r.ret) >>)
     ELSE IF pcb.recv = "tcp_recv_null"
     THEN tcp_close(C1, slot, "fin").C
     ELSE C1

\* TCP_EVENT_SENT: len bytes were acknowledged.
TCP_EVENT_SENT(C, slot, len) ==
  LET pcb == C.pcbs[slot]
      C1 == Emit(C, << [Ev("TCP_EVENT_SENT") EXCEPT !.fid = pcb.fid, !.n = len] >>)
  IN IF pcb.sent = "tcp_sent_cb"
     THEN Emit(C1, Tag(tcp_sent_cb(pcb.callback_arg, len).eff, pcb.fid))
     ELSE C1

\* TCP_EVENT_ACCEPT: the handshake of a connection is complete (newpcb), or
\* the pool had no slot for a SYN (newpcb = NULL).
TCP_EVENT_ACCEPT(C, lpcb, newpcb, accepts) ==
  LET fid == IF newpcb = NULL THEN 0 ELSE C.pcbs[newpcb].fid
      C1 == Emit(C, << [Ev("TCP_EVENT_ACCEPT") EXCEPT
                          !.fid = fid,
                          !.tup = IF newpcb = NULL THEN <<>> ELSE C.pcbs[newpcb].syn] >>)
  IN IF ~lpcb.valid \/ lpcb.cb /= "tcp_accept_cb"
     THEN IF newpcb = NULL THEN C1 ELSE tcp_abort(C1, newpcb)
     ELSE LET r == tcp_accept_cb(C1, newpcb, IF accepts THEN fid ELSE NULL)
              C2 == Emit(r.C, << RetMark("ret:tcp_accept_cb", fid, r.ret) >>)
          IN IF r.ret /= "ERR_OK" /\ r.ret /= "ERR_ABRT" /\ newpcb /= NULL
             THEN tcp_abort(C2, newpcb)
             ELSE C2

\* The slot of the active connection a segment belongs to, or NULL.
Match(C, pkt) ==
  LET m == { s \in Slots : /\ C.pcbs[s].state /= "FREE"
                           /\ C.pcbs[s].local_ip = pkt.dst
                           /\ C.pcbs[s].local_port = pkt.dport
                           /\ C.pcbs[s].remote_ip = pkt.src
                           /\ C.pcbs[s].remote_port = pkt.sport }
  IN IF m = {} THEN NULL ELSE CHOOSE s \in m : TRUE

FreeSlots(C) == { s \in Slots : C.pcbs[s].state = "FREE" }

\* tcp_listen_input: a SYN for the catch-all listener makes a connection in
\* SYN_RCVD whose local port is the destination port of the SYN.
tcp_listen_input(C, lpcb, pkt, fid, accepts) ==
  IF ~Listens(lpcb, pkt.dport) THEN C
  ELSE IF FreeSlots(C) = {}
  THEN TCP_EVENT_ACCEPT(C, lpcb, NULL, accepts)
  ELSE LET slot == CHOOSE s \in FreeSlots(C) : \A t \in FreeSlots(C) : s <= t
       IN [C EXCEPT
             !.pcbs[slot] = [FreePcb EXCEPT
                 !.state = "SYN_RCVD",
                 !.local_ip = pkt.dst, !.local_port = pkt.dport,
                 !.remote_ip = pkt.src, !.remote_port = pkt.sport,
                 !.recv = "tcp_recv_null", !.fid = fid,
                 !.syn = PktTuple(pkt)],
             !.act = <<slot>> \o @,
             !.eff = Append(@, [Ev("tcp_listen_input") EXCEPT !.fid = fid])]

\* tcp_input: one segment.
tcp_input(C, lpcb, pkt, fid, accepts, mem) ==
  LET slot == Match(C, pkt) IN
  IF slot = NULL
  THEN IF pkt.kind = "SYN" THEN tcp_listen_input(C, lpcb, pkt, fid, accepts) ELSE C
  ELSE
  LET pcb == C.pcbs[slot]
      st == pcb.state
  IN
  CASE pkt.kind = "RST" /\ st /= "TIME_WAIT" ->
         tcp_free(TCP_EVENT_ERR(C, pcb.errf, pcb.callback_arg, "ERR_RST", pcb.fid), slot)
    [] pkt.kind = "ACK" /\ st = "SYN_RCVD" ->
         TCP_EVENT_ACCEPT([C EXCEPT !.pcbs[slot].state = "ESTABLISHED"], lpcb, slot, accepts)
    [] pkt.kind = "ACK" /\ st = "FIN_WAIT_1" ->
         [C EXCEPT !.pcbs[slot].state = "FIN_WAIT_2"]
    [] pkt.kind = "ACK" /\ st = "CLOSING" ->
         [C EXCEPT !.pcbs[slot].state = "TIME_WAIT",
                   !.act = Remove(@, slot), !.tw = <<slot>> \o @]
    [] pkt.kind = "ACK" /\ st = "LAST_ACK" ->
         tcp_free(C, slot)
    [] pkt.kind = "DATA" /\ st = "ESTABLISHED" ->
         LET C1 == TCP_EVENT_RECV(C, slot, Pbuf(pkt.segs), mem)
         IN IF pkt.fin
            THEN TCP_EVENT_CLOSED([C1 EXCEPT !.pcbs[slot].state = "CLOSE_WAIT"], slot, mem)
            ELSE C1
    [] pkt.kind = "DATA" /\ st \in {"FIN_WAIT_1", "FIN_WAIT_2"} ->
         tcp_abort(C, slot)       \* data after the local end closed
    [] pkt.kind = "FIN" /\ st = "ESTABLISHED" ->
         TCP_EVENT_CLOSED([C EXCEPT !.pcbs[slot].state = "CLOSE_WAIT"], slot, mem)
    [] pkt.kind = "FIN" /\ st = "FIN_WAIT_1" ->
         [C EXCEPT !.pcbs[slot].state = "CLOSING"]
    [] pkt.kind = "FIN" /\ st = "FIN_WAIT_2" ->
         [C EXCEPT !.pcbs[slot].state = "TIME_WAIT",
                   !.act = Remove(@, slot), !.tw = <<slot>> \o @]
    [] pkt.kind = "ACKDATA" /\ st \notin {"SYN_RCVD", "TIME_WAIT"} /\ pcb.unacked >= pkt.n ->
         TCP_EVENT_SENT([C EXCEPT !.pcbs[slot].unacked = @ - pkt.n], slot, pkt.n)
    [] OTHER -> C

\* udp_input: a datagram goes to the catch-all listener of its family.
udp_input(C, G, upcb, pkt, off, mem) ==
  IF pkt.len - off < 8 \/ ~Listens(upcb, pkt.dport) \/ upcb.cb /= "udp_recv_cb"
  THEN C
  ELSE Emit(C, << [CallMark("call:udp_recv_cb", 0, NULL, Pbuf(pkt.segs))
                     EXCEPT !.tup = PktTuple(pkt)] >>
               \o udp_recv_cb(G, Pbuf(pkt.segs), pkt.src, pkt.sport, mem)
               \o << RetMark("ret:udp_recv_cb", 0, "") >>)

\* ip_input: the engine takes the packet when the interface is up, walks the
\* IPv6 extension headers, and hands the rest to UDP or TCP.  L: the
\* listeners [tcp4, tcp6, udp4, udp6].
ip_input(C, G, L, up, pkt, fid, accepts, mem) ==
  LET off == pkt.hl + 8 * pkt.ext IN
  IF ~up \/ pkt.hl > pkt.len \/ off > pkt.len
  THEN C
  ELSE IF pkt.l4 = PROTO_UDP
  THEN udp_input(C, G, IF pkt.ver = 6 THEN L.udp6 ELSE L.udp4, pkt, off, mem)
  ELSE IF pkt.l4 = PROTO_TCP
  THEN tcp_input(C, IF pkt.ver = 6 THEN L.tcp6 ELSE L.tcp4, pkt, fid, accepts, mem)
  ELSE C

\* tcp_slowtmr: the connections of expire that may time out are freed; an
\* active one gets its error callback, a TIME_WAIT one nothing.
MayExpire(pcb) ==
  \/ pcb.state \in {"SYN_RCVD", "FIN_WAIT_1", "FIN_WAIT_2", "CLOSING", "LAST_ACK", "TIME_WAIT"}
  \/ pcb.unacked > 0

RECURSIVE tcp_slowtmr(_, _, _)
tcp_slowtmr(C, list, expire) ==
  IF list = <<>> THEN C
  ELSE LET slot == Head(list)
           pcb == C.pcbs[slot]
           C1 == IF slot \in expire /\ MayExpire(pcb)
                 THEN IF pcb.state = "TIME_WAIT"
                      THEN tcp_free(C, slot)
                      ELSE TCP_EVENT_ERR(tcp_free(C, slot), pcb.errf, pcb.callback_arg,
                                         "ERR_ABRT", pcb.fid)
                 ELSE C
       IN tcp_slowtmr(C1, Tail(list), expire)

\* tcp_write(pcb, data, len, TCP_WRITE_FLAG_COPY)
tcp_write(C, slot, len) ==
  IF C.pcbs[slot].state \in {"ESTABLISHED", "CLOSE_WAIT"}
     /\ C.pcbs[slot].unacked + len <= MaxUnacked
  THEN [C |-> [C EXCEPT !.pcbs[slot].unacked = @ + len], ret |-> "ERR_OK"]
  ELSE [C |-> C, ret |-> "ERR_MEM"]


\* ------------------------------------------------------------------------
\* The bridge's entry points.
\* ------------------------------------------------------------------------

\* The 16-bit big-endian value at byte offset off of the packet: the
\* destination port when off is where the transport header keeps it, bytes
\* of an extension header (zero padding) otherwise.
U16At(pkt, off) == IF off = pkt.hl + 8 * pkt.ext + 2 THEN pkt.dport ELSE 0

\* ip_addr_copy_from_ip4 / ip_addr_copy_from_ip6 of the header's destination.
ip_addr_copy_from_ip4(bytes) == [type |-> IPADDR_TYPE_V4, bytes |-> bytes]
ip_addr_copy_from_ip6(bytes) == [type |-> IPADDR_TYPE_V6, bytes |-> bytes]

\* The destination capture of lwip_bridge_input (lines 364-385): the scratch
\* state after it.
CaptureUdpDst(G, pkt) ==
  IF pkt.ver = 4 /\ pkt.len >= 20
  THEN IF pkt.proto = PROTO_UDP /\ pkt.len >= pkt.hl + 8
       THEN [port |-> U16At(pkt, pkt.hl + 2), ip |-> ip_addr_copy_from_ip4(pkt.dst.bytes)]
       ELSE G
  ELSE IF pkt.ver = 6 /\ pkt.len >= 40
  THEN IF pkt.proto = PROTO_UDP /\ pkt.len >= 48
       THEN [port |-> U16At(pkt, 42), ip |-> ip_addr_copy_from_ip6(pkt.dst.bytes)]
       ELSE G
  ELSE G

\* Variant of Refused: the length is not compared with the header's length.
Refused_nolen(pkt) ==
  \/ pkt.isNull \/ pkt.len <= 0
  \/ pkt.ver \notin {4, 6}

\* The packets lwip_bridge_input returns on before it allocates a buffer.
Refused(pkt) ==
  \/ pkt.isNull \/ pkt.len <= 0
  \/ ~((pkt.ver = 4 /\ pkt.len >= 20) \/ (pkt.ver = 6 /\ pkt.len >= 40))

\* lwip_bridge_input(data, len).  fail: "none", or what fails in this call:
\* "pbuf_alloc", "input" (the engine refuses the packet), "mem_malloc".
lwip_bridge_input(C, G, L, up, pkt, fid, accepts, fail) ==
  IF Refused(pkt)
  THEN [C |-> C, G |-> G]
  ELSE LET G1 == CaptureUdpDst(G, pkt) IN
       IF fail = "pbuf_alloc"
       THEN [C |-> Emit(C, << [Ev("pbuf_alloc") EXCEPT !.err = "NULL"] >>), G |-> G1]
       ELSE LET C1 == Emit(C, << Ev("pbuf_alloc"), Ev("pbuf_take") >>)
            IN IF fail = "input"
               THEN [C |-> Emit(C1, << [Ev("input") EXCEPT !.err = "ERR_VAL"],
                                       Ev("pbuf_free") >>),
                     G |-> G1]
               ELSE [C |-> Emit(ip_input(C1, G1, L, up, pkt, fid, accepts, fail /= "mem_malloc"),
                                << [Ev("input") EXCEPT !.err = "ERR_OK"] >>),
                     G |-> G1]

\* lwip_bridge_tcp_write(pcb, data, len)
lwip_bridge_tcp_write(C, slot, len) == tcp_write(C, slot, len)

\* Variant of ClearCallbacks: the registrations are left as they are.
ClearCallbacks_none(C, slot) == C

\* Variant of ClearCallbacks: only the argument is cleared.
ClearCallbacks_arg(C, slot) == [C EXCEPT !.pcbs[slot].callback_arg = NULL]

\* The four registrations on a connection cleared (tcp_arg, tcp_recv,
\* tcp_sent, tcp_err with NULL).
ClearCallbacks(C, slot) ==
  [C EXCEPT !.pcbs[slot].callback_arg = NULL,
            !.pcbs[slot].recv = "NULL",
            !.pcbs[slot].sent = "NULL",
            !.pcbs[slot].errf = "NULL"]

\* lwip_bridge_tcp_close(pcb)
lwip_bridge_tcp_close(C, slot, how) ==
  LET C1 == ClearCallbacks(C, slot)
      r == tcp_close(C1, slot, how)
  IN IF r.ret /= "ERR_OK" THEN tcp_abort(r.C, slot) ELSE r.C

\* Variant of lwip_bridge_tcp_abort: the registrations are not cleared first.
lwip_bridge_tcp_abort_keep(C, slot) == tcp_abort(C, slot)

\* lwip_bridge_tcp_abort(pcb)
lwip_bridge_tcp_abort(C, slot) == tcp_abort(ClearCallbacks(C, slot), slot)

\* Variant of AbortActive: only the head of the list is aborted.
AbortActive_head(C) ==
  IF C.act = <<>> THEN C ELSE tcp_abort(C, Head(C.act))

\* The two loops of lwip_bridge_shutdown.
RECURSIVE AbortActive(_)
AbortActive(C) ==
  IF C.act = <<>> THEN C ELSE AbortActive(tcp_abort(C, Head(C.act)))

\* Variant of FreeTimeWait: the TIME_WAIT connections are left.
FreeTimeWait_none(C) == C

RECURSIVE FreeTimeWait(_)
FreeTimeWait(C) ==
  IF C.tw = <<>> THEN C ELSE FreeTimeWait(tcp_free(C, Head(C.tw)))

\* The size of the engine's pool of UDP contexts.
MEMP_NUM_UDP_PCB == 4

\* (u16_t)len
U16Range == 65536
u16_t(n) == n % U16Range

\* n bytes of the caller, the first of them `first`, each the one before it
\* plus 1 (mod 256).
Run(first, n) == [first |-> first, len |-> n]

\* memcpy(buf, data, len) into a buffer of cap bytes: what the buffer holds.
\* The bytes past cap are written behind the buffer.
memcpy(data, len, cap) == Run(data.first, IF len < cap THEN len ELSE cap)

\* The ip_addr_t lwip_bridge_udp_sendto builds from raw bytes.
AddrFromBytes(bytes, is_ipv6) ==
  IF is_ipv6 THEN [type |-> IPADDR_TYPE_V6, bytes |-> SubSeq(bytes, 1, 16)]
             ELSE [type |-> IPADDR_TYPE_V4, bytes |-> SubSeq(bytes, 1, 4)]

\* lwip_bridge_udp_sendto(src_ip_bytes, src_port, dst_ip_bytes, dst_port,
\* is_ipv6, data, len).  U: the UDP contexts in use.  fail: "none", or what
\* fails in this call: "udp_bind", "pbuf_alloc", "send"; udp_new fails when
\* the pool is used up.  The result: the calls made, the contexts in use
\* afterwards, and whether bytes were written behind the buffer.
lwip_bridge_udp_sendto(U, src_ip_bytes, src_port, dst_ip_bytes, dst_port, is_ipv6, data, len, fail) ==
  IF data.isNull \/ len <= 0
  THEN [eff |-> <<>>, udp |-> U, overrun |-> FALSE]
  ELSE
    LET src_addr == AddrFromBytes(src_ip_bytes, is_ipv6)
        dst_addr == AddrFromBytes(dst_ip_bytes, is_ipv6)
        new == [Ev("udp_new_ip_type") EXCEPT !.arg = src_addr.type]
        bind == [Ev("udp_bind") EXCEPT !.tup = <<src_addr.bytes, src_port>>]
        remove == [Ev("udp_remove") EXCEPT !.err = "pcb"]
        cap == u16_t(len)
        p == memcpy(data, len, cap)
        send == [Ev("udp_sendto_if_src") EXCEPT
                   !.tup = <<src_addr.bytes, src_port, dst_addr.bytes, dst_port,
                             IF IP_IS_V6(dst_addr) THEN 1 ELSE 0>>,
                   !.arg = p.first, !.n = p.len,
                   !.err = IF fail = "send" THEN "ERR_RTE" ELSE "ERR_OK"]
    IN IF Cardinality(U) >= MEMP_NUM_UDP_PCB
       THEN [eff |-> << [new EXCEPT !.err = "NULL"] >>, udp |-> U, overrun |-> FALSE]
       ELSE IF fail = "udp_bind"
       THEN [eff |-> << new, [bind EXCEPT !.err = "ERR_USE"], remove >>,
             udp |-> (U \cup {"pcb"}) \ {"pcb"}, overrun |-> FALSE]
       ELSE IF fail = "pbuf_alloc"
       THEN [eff |-> << new, bind, [Ev("pbuf_alloc") EXCEPT !.n = cap, !.err = "NULL"],
                        remove >>,
             udp |-> (U \cup {"pcb"}) \ {"pcb"}, overrun |-> FALSE]
       ELSE [eff |-> << new, bind, [Ev("pbuf_alloc") EXCEPT !.n = cap],
                        [Ev("memcpy") EXCEPT !.n = len], send, Ev("pbuf_free"), remove >>,
             udp |-> (U \cup {"pcb"}) \ {"pcb"}, overrun |-> len > cap]

AllListeners(L) == [tcp4 |-> L[1], tcp6 |-> L[2], udp4 |-> L[3], udp6 |-> L[4]]

\* lwip_bridge_shutdown()
lwip_bridge_shutdown(C, L) ==
  LET C1 == FreeTimeWait(AbortActive(C))
      closing ==
        (IF L.tcp4.valid THEN << [Ev("tcp_close") EXCEPT !.err = "tcp_listen_pcb_v4"] >> ELSE <<>>)
        \o (IF L.tcp6.valid THEN << [Ev("tcp_close") EXCEPT !.err = "tcp_listen_pcb_v6"] >> ELSE <<>>)
        \o (IF L.udp4.valid THEN << [Ev("udp_remove") EXCEPT !.err = "udp_listen_pcb_v4"] >> ELSE <<>>)
        \o (IF L.udp6.valid THEN << [Ev("udp_remove") EXCEPT !.err = "udp_listen_pcb_v6"] >> ELSE <<>>)
        \o << Ev("netif_set_down"), Ev("netif_remove") >>
  IN [C |-> Emit(C1, closing),
      L |-> [tcp4 |-> NullListener, tcp6 |-> NullListener,
             udp4 |-> NullListener, udp6 |-> NullListener],
      netif |-> "removed"]

\* The UDP contexts lwip_bridge_init makes and lwip_bridge_shutdown removes.
UdpListenerNames == {"udp_listen_pcb_v4", "udp_listen_pcb_v6"}

\* lwip_bridge_init(): the interface added and up, one catch-all listener
\* per protocol and family, its port forced to 0 after binding.
\* tcp_bind / udp_bind with port 0 gives the listener a port of the
\* engine's ephemeral range.
EphemeralPort == 49152
BoundListener == [valid |-> TRUE, local_port |-> EphemeralPort, cb |-> "NULL"]

\* Variant of ForceCatchAll: the port the binding gave is kept.
ForceCatchAll_keep(lpcb, cb) == [lpcb EXCEPT !.cb = cb]

\* local_port = 0 after the binding, then the bridge's callback installed.
ForceCatchAll(lpcb, cb) == [lpcb EXCEPT !.local_port = 0, !.cb = cb]

TcpListener == ForceCatchAll(BoundListener, "tcp_accept_cb")
UdpListener == ForceCatchAll(BoundListener, "udp_recv_cb")

\* ------------------------------------------------------------------------
\* History: what has happened to each flow, read off the trace.
\*   "none"     no SYN yet          "syn"    in the handshake
\*   "unbound"  established, no handle (yet)
\*   "bound"    accepted: the relay layer holds the handle of the flow
\*   "refused"  the external accept callback returned no handle
\*   "closed"   the relay layer has called close or abort on the flow
\*   "freed"    the engine has freed the flow while its handle was bound and
\*              has not yet raised the error event
\*   "errored"  the engine has raised its error event on the bound flow
\*   "dead"     freed by the engine without ever having had a handle
\* ------------------------------------------------------------------------
LifeStep(cur, e) ==
  CASE e.op = "tcp_listen_input" -> "syn"
    [] e.op = "TCP_EVENT_ACCEPT" -> "unbound"
    [] e.op = "tcp_accept_fn" -> IF e.arg = NULL THEN "refused" ELSE "bound"
    [] e.op \in {"lwip_bridge_tcp_close", "lwip_bridge_tcp_abort"} -> "closed"
    [] e.op = "TCP_EVENT_ERR" /\ cur \in {"bound", "freed"} -> "errored"
    [] e.op = "tcp_free" /\ cur = "bound" -> "freed"
    [] e.op = "tcp_free" /\ cur \in {"syn", "unbound"} -> "dead"
    [] OTHER -> cur

RECURSIVE LifeAfter(_, _)
LifeAfter(l, eff) ==
  IF eff = <<>> THEN l
  ELSE LET e == Head(eff)
           l1 == IF e.fid = 0 THEN l ELSE [l EXCEPT ![e.fid] = LifeStep(l[e.fid], e)]
       IN LifeAfter(l1, Tail(eff))

NewFlows(eff) == Cardinality({ i \in DOMAIN eff : eff[i].op = "tcp_listen_input" })

\* The state the entry points thread through the engine.
Ctx == [pcbs |-> pcbs, act |-> tcp_active_pcbs, tw |-> tcp_tw_pcbs, eff |-> <<>>]
Scratch == [port |-> s_current_udp_dst_port, ip |-> s_current_udp_dst_ip]
Listeners == AllListeners(listeners)

\* The part every action shares: the engine's tables and the history follow
\* from what the call did.
Commit(C) ==
  /\ pcbs' = C.pcbs
  /\ tcp_active_pcbs' = C.act
  /\ tcp_tw_pcbs' = C.tw
  /\ trace' = C.eff
  /\ life' = LifeAfter(life, C.eff)
  /\ nextFid' = nextFid + NewFlows(C.eff)

\* The relay layer holds a handle for the connection in this slot.
Held(slot) ==
  /\ pcbs[slot].state /= "FREE"
  /\ pcbs[slot].fid /= 0
  /\ life[pcbs[slot].fid] = "bound"

\* ------------------------------------------------------------------------
\* Actions
\* ------------------------------------------------------------------------
Init ==
  /\ s_output_fn = FALSE
  /\ s_tcp_accept_fn = FALSE
  /\ s_tcp_recv_fn = FALSE
  /\ s_tcp_sent_fn = FALSE
  /\ s_tcp_err_fn = FALSE
  /\ s_udp_recv_fn = FALSE
  /\ tun_netif = "unset"
  /\ tcp_listen_pcb_v4 = NullListener
  /\ tcp_listen_pcb_v6 = NullListener
  /\ udp_listen_pcb_v4 = NullListener
  /\ udp_listen_pcb_v6 = NullListener
  /\ udp_pcbs = {}
  /\ s_current_udp_dst_port = 0
  /\ s_current_udp_dst_ip = IpZero
  /\ pcbs = [s \in Slots |-> FreePcb]
  /\ tcp_active_pcbs = <<>>
  /\ tcp_tw_pcbs = <<>>
  /\ nextFid = 1
  /\ life = [f \in Flows |-> "none"]
  /\ trace = <<>>

SetOutputFn ==
  \E fn \in BOOLEAN :
    /\ s_output_fn' = fn
    /\ trace' = <<>>
    /\ UNCHANGED <<s_tcp_accept_fn, s_tcp_recv_fn, s_tcp_sent_fn, s_tcp_err_fn, s_udp_recv_fn,
                   tun_netif, listeners, udp_pcbs, scratch, tcpState, nextFid, life>>

SetTcpAcceptFn ==
  \E fn \in BOOLEAN :
    /\ s_tcp_accept_fn' = fn
    /\ trace' = <<>>
    /\ UNCHANGED <<s_output_fn, s_tcp_recv_fn, s_tcp_sent_fn, s_tcp_err_fn, s_udp_recv_fn,
                   tun_netif, listeners, udp_pcbs, scratch, tcpState, nextFid, life>>

SetTcpRecvFn ==
  \E fn \in BOOLEAN :
    /\ s_tcp_recv_fn' = fn
    /\ trace' = <<>>
    /\ UNCHANGED <<s_output_fn, s_tcp_accept_fn, s_tcp_sent_fn, s_tcp_err_fn, s_udp_recv_fn,
                   tun_netif, listeners, udp_pcbs, scratch, tcpState, nextFid, life>>

SetTcpSentFn ==
  \E fn \in BOOLEAN :
    /\ s_tcp_sent_fn' = fn
    /\ trace' = <<>>
    /\ UNCHANGED <<s_output_fn, s_tcp_accept_fn, s_tcp_recv_fn, s_tcp_err_fn, s_udp_recv_fn,
                   tun_netif, listeners, udp_pcbs, scratch, tcpState, nextFid, life>>

SetTcpErrFn ==
  \E fn \in BOOLEAN :
    /\ s_tcp_err_fn' = fn
    /\ trace' = <<>>
    /\ UNCHANGED <<s_output_fn, s_tcp_accept_fn, s_tcp_recv_fn, s_tcp_sent_fn, s_udp_recv_fn,
                   tun_netif, listeners, udp_pcbs, scratch, tcpState, nextFid, life>>

SetUdpRecvFn ==
  \E fn \in BOOLEAN :
    /\ s_udp_recv_fn' = fn
    /\ trace' = <<>>
    /\ UNCHANGED <<s_output_fn, s_tcp_accept_fn, s_tcp_recv_fn, s_tcp_sent_fn, s_tcp_err_fn,
                   tun_netif, listeners, udp_pcbs, scratch, tcpState, nextFid, life>>

\* lwip_bridge_init() is called on a bridge that is not running, and every
\* tcp_new / udp_new of it succeeds.
BridgeInit ==
  /\ tun_netif /= "up"
  /\ tun_netif' = "up"
  /\ tcp_listen_pcb_v4' = TcpListener
  /\ tcp_listen_pcb_v6' = TcpListener
  /\ udp_listen_pcb_v4' = UdpListener
  /\ udp_listen_pcb_v6' = UdpListener
  /\ udp_pcbs' = UdpListenerNames
  /\ trace' = << Ev("lwip_bridge_init") >>
  /\ UNCHANGED <<fns, scratch, tcpState, nextFid, life>>

BridgeShutdown ==
  /\ tun_netif = "up"
  /\ LET r == lwip_bridge_shutdown(Emit(Ctx, << Ev("lwip_bridge_shutdown") >>), Listeners)
     IN /\ Commit(r.C)
        /\ tun_netif' = r.netif
        /\ tcp_listen_pcb_v4' = r.L.tcp4
        /\ tcp_listen_pcb_v6' = r.L.tcp6
        /\ udp_listen_pcb_v4' = r.L.udp4
        /\ udp_listen_pcb_v6' = r.L.udp6
        /\ udp_pcbs' = udp_pcbs \ UdpListenerNames
  /\ UNCHANGED <<fns, scratch>>

Fails == {"none", "pbuf_alloc", "input", "mem_malloc"}

\* The arguments of a call of lwip_bridge_input: whether data is NULL, len,
\* and the version nibble of the first byte.
InputArgs(pkt) ==
  [Ev("lwip_bridge_input") EXCEPT !.err = IF pkt.isNull THEN "NULL" ELSE "",
                                  !.n = pkt.len, !.arg = pkt.ver]

\* args: whether the call's arguments are recorded in the trace.
BridgeInputAs(packets, args) ==
  \E pkt \in packets, accepts \in BOOLEAN, fail \in Fails :
    /\ tun_netif /= "unset"
    /\ pkt.kind = "SYN" => nextFid <= MaxFlows
    /\ accepts \/ pkt.kind = "ACK"
    /\ fail = "mem_malloc" => Len(pkt.segs) > 1
    \* a TCP segment lost to a failed allocation is a segment that never came
    /\ fail \in {"pbuf_alloc", "input"} => pkt.kind = "udp"
    /\ LET r == lwip_bridge_input(
                  Emit(Ctx, << IF args THEN InputArgs(pkt) ELSE Ev("lwip_bridge_input") >>),
                  Scratch, Listeners, tun_netif = "up", pkt, nextFid, accepts, fail)
       IN /\ Commit(r.C)
          /\ s_current_udp_dst_port' = r.G.port
          /\ s_current_udp_dst_ip' = r.G.ip
    /\ UNCHANGED <<fns, tun_netif, listeners, udp_pcbs>>

\* The lengths lwip_bridge_udp_sendto is called with.
SendLens == {-1, 0, 1, 2, 1400, 65535, 65536, 65538}
SendFails == {"none", "udp_bind", "pbuf_alloc", "send"}

\* What the bytes written behind the buffer can hit: memory nothing reads
\* again, or the context of a listener.
Behind == {"unused", "udp_listen_pcb_v4"}
Overwritten(lpcb, data) == [lpcb EXCEPT !.local_port = data.first, !.cb = "overwritten"]

BridgeUdpSendto ==
  \E is_ipv6 \in BOOLEAN, src_port \in DstPorts, isNull \in BOOLEAN, first \in {1},
     len \in SendLens, fail \in SendFails, behind \in Behind :
    LET src == IF is_ipv6 THEN Ip6(1) ELSE Ip4(10, 0, 0, 1)
        dst == IF is_ipv6 THEN Src6 ELSE Src4
        data == [isNull |-> isNull, first |-> first]
        r == lwip_bridge_udp_sendto(udp_pcbs, src.bytes, src_port, dst.bytes, 7,
                                    is_ipv6, data, len, fail)
    IN /\ tun_netif = "up"
       /\ isNull => len = 2 /\ fail = "none"
       /\ len <= 0 => fail = "none"
       /\ behind /= "unused" => r.overrun
       /\ trace' = << [Ev("lwip_bridge_udp_sendto") EXCEPT
                        !.tup = <<src.bytes, src_port, dst.bytes, 7,
                                  IF is_ipv6 THEN 1 ELSE 0>>,
                        !.arg = first, !.n = len,
                        !.err = IF isNull THEN "NULL" ELSE ""] >>
                   \o r.eff
       /\ udp_pcbs' = r.udp
       /\ udp_listen_pcb_v4' = IF r.overrun /\ behind = "udp_listen_pcb_v4"
                               THEN Overwritten(udp_listen_pcb_v4, data)
                               ELSE udp_listen_pcb_v4
       /\ UNCHANGED <<fns, tun_netif, tcp_listen_pcb_v4, tcp_listen_pcb_v6,
                      udp_listen_pcb_v6, scratch, tcpState, nextFid, life>>

BridgeCheckTimeouts ==
  \E expire \in SUBSET Slots :
    /\ tun_netif /= "unset"
    /\ Commit(tcp_slowtmr(Emit(Ctx, << Ev("lwip_bridge_check_timeouts") >>),
                          tcp_active_pcbs \o tcp_tw_pcbs, expire))
    /\ UNCHANGED <<fns, tun_netif, listeners, udp_pcbs, scratch>>

BridgeTcpWrite ==
  \E slot \in Slots, len \in 1..MaxUnacked :
    /\ Held(slot)
    /\ Commit(lwip_bridge_tcp_write(Ctx, slot, len).C)
    /\ UNCHANGED <<fns, tun_netif, listeners, udp_pcbs, scratch>>

BridgeTcpClose ==
  \E slot \in Slots, how \in {"fin", "rst", "err"} :
    /\ Held(slot)
    /\ Commit(Emit(lwip_bridge_tcp_close(
                     Emit(Ctx, << [Ev("lwip_bridge_tcp_close") EXCEPT
                                     !.fid = pcbs[slot].fid] >>), slot, how),
                   << Ev("return") >>))
    /\ UNCHANGED <<fns, tun_netif, listeners, udp_pcbs, scratch>>

BridgeTcpAbort ==
  \E slot \in Slots :
    /\ Held(slot)
    /\ Commit(Emit(lwip_bridge_tcp_abort(
                     Emit(Ctx, << [Ev("lwip_bridge_tcp_abort") EXCEPT
                                     !.fid = pcbs[slot].fid] >>), slot),
                   << Ev("return") >>))
    /\ UNCHANGED <<fns, tun_netif, listeners, udp_pcbs, scratch>>

BridgeInput(packets) == BridgeInputAs(packets, FALSE)

InputTcp == BridgeInput(TcpPackets)
InputUdp == BridgeInputAs(UdpPackets \cup BadPackets, TRUE)
InputFew == BridgeInput(FewPackets)

\* The TCP side of a bridge that was started with its TCP callbacks
\* registered: two connections at a time.
InitTcp ==
  /\ s_output_fn = FALSE
  /\ s_tcp_accept_fn = TRUE
  /\ s_tcp_recv_fn = TRUE
  /\ s_tcp_sent_fn = TRUE
  /\ s_tcp_err_fn = TRUE
  /\ s_udp_recv_fn = FALSE
  /\ tun_netif = "unset"
  /\ tcp_listen_pcb_v4 = NullListener
  /\ tcp_listen_pcb_v6 = NullListener
  /\ udp_listen_pcb_v4 = NullListener
  /\ udp_listen_pcb_v6 = NullListener
  /\ udp_pcbs = {}
  /\ s_current_udp_dst_port = 0
  /\ s_current_udp_dst_ip = IpZero
  /\ pcbs = [s \in Slots |-> FreePcb]
  /\ tcp_active_pcbs = <<>>
  /\ tcp_tw_pcbs = <<>>
  /\ nextFid = 1
  /\ life = [f \in Flows |-> "none"]
  /\ trace = <<>>

NextTcp ==
  \/ BridgeInit
  \/ BridgeShutdown
  \/ InputTcp
  \/ BridgeCheckTimeouts
  \/ BridgeTcpWrite
  \/ BridgeTcpClose
  \/ BridgeTcpAbort

SpecTcp == InitTcp /\ [][NextTcp]_vars

\* The UDP side: datagrams and refused packets of every shape.
NextUdp ==
  \/ SetUdpRecvFn
  \/ BridgeInit
  \/ BridgeShutdown
  \/ InputUdp

SpecUdp == Init /\ [][NextUdp]_vars

\* Datagrams sent by the relay.
NextSend ==
  \/ BridgeInit
  \/ BridgeShutdown
  \/ BridgeUdpSendto

SpecSend == Init /\ [][NextSend]_vars

\* The TCP side with the callbacks registered, replaced and unregistered at
\* any time: one connection at a time.
Next ==
  \/ SetTcpAcceptFn
  \/ SetTcpRecvFn
  \/ SetTcpSentFn
  \/ SetTcpErrFn
  \/ BridgeInit
  \/ BridgeShutdown
  \/ InputFew
  \/ BridgeCheckTimeouts
  \/ BridgeTcpWrite
  \/ BridgeTcpClose
  \/ BridgeTcpAbort

Spec == Init /\ [][Next]_vars

\* The two receive callbacks called directly, as the engine may call them:
\* with any argument, with or without a buffer.
CbSegs == { << <<1>> >>, << <<1, 2>> >>, << <<1>>, <<2>> >>, << <<1, 2>>, <<3>> >>,
            << <<1>>, <<2>>, <<3>> >> }
CbPbufs == {NoPbuf} \cup { Pbuf(segs) : segs \in CbSegs }

CallTcpRecvCb ==
  \E arg \in {NULL} \cup Flows, p \in CbPbufs, mem \in BOOLEAN :
    /\ ~mem => HasNext(p)
    /\ LET r == tcp_recv_cb(arg, p, mem)
       IN trace' = << CallMark("call:tcp_recv_cb", 0, arg, p) >>
                   \o r.eff
                   \o << RetMark("ret:tcp_recv_cb", 0, r.ret) >>
    /\ UNCHANGED <<fns, tun_netif, listeners, udp_pcbs, scratch, tcpState, nextFid, life>>

CallUdpRecvCb ==
  \E p \in CbPbufs, addr \in {Src4, Src6}, mem \in BOOLEAN :
    /\ ~mem => HasNext(p)
    /\ trace' = << CallMark("call:udp_recv_cb", 0, NULL, p) >>
                \o udp_recv_cb(Scratch, p, addr, 7, mem)
                \o << RetMark("ret:udp_recv_cb", 0, "") >>
    /\ UNCHANGED <<fns, tun_netif, listeners, udp_pcbs, scratch, tcpState, nextFid, life>>

\* The engine gives an outgoing packet to the interface.
CallNetifOutputIp4 ==
  \E p \in CbPbufs, mem \in BOOLEAN :
    /\ ~mem => HasNext(p)
    /\ LET r == netif_output_ip4(p, mem)
       IN trace' = << CallMark("call:netif_output_ip4", 0, NULL, p) >>
                   \o r.eff
                   \o << RetMark("ret:netif_output_ip4", 0, r.ret) >>
    /\ UNCHANGED <<fns, tun_netif, listeners, udp_pcbs, scratch, tcpState, nextFid, life>>

CallNetifOutputIp6 ==
  \E p \in CbPbufs, mem \in BOOLEAN :
    /\ ~mem => HasNext(p)
    /\ LET r == netif_output_ip6(p, mem)
       IN trace' = << CallMark("call:netif_output_ip6", 0, NULL, p) >>
                   \o r.eff
                   \o << RetMark("ret:netif_output_ip6", 0, r.ret) >>
    /\ UNCHANGED <<fns, tun_netif, listeners, udp_pcbs, scratch, tcpState, nextFid, life>>

NextCb ==
  \/ SetOutputFn
  \/ SetTcpRecvFn
  \/ SetUdpRecvFn
  \/ CallTcpRecvCb
  \/ CallUdpRecvCb
  \/ CallNetifOutputIp4
  \/ CallNetifOutputIp6

SpecCb == Init /\ [][NextCb]_vars

\* ------------------------------------------------------------------------
\* VLESS/CVLESS.c: the request header and the IPv4 text parser.
\* ------------------------------------------------------------------------

VLESS_CMD_TCP == 1
VLESS_CMD_UDP == 2
VLESS_ADDR_IPV4 == 1
VLESS_ADDR_DOMAIN == 2
VLESS_ADDR_IPV6 == 3

\* (uint8_t)x
U8Range == 256
uint8_t(x) == x % U8Range

\* Variant of PortBytes: the low byte first.
PortBytes_le(port) == << uint8_t(port % U8Range), uint8_t(port \div U8Range) >>

\* buffer[offset++] = (uint8_t)(port >> 8); buffer[offset++] = (uint8_t)(port & 0xFF);
PortBytes(port) == << uint8_t(port \div U8Range), uint8_t(port % U8Range) >>

\* Variant of AddressData: a domain is written without its length byte.
AddressData_noprefix(addressType, address, addressLen) ==
  IF addressType = VLESS_ADDR_DOMAIN THEN SubSeq(address, 1, addressLen)
  ELSE IF addressType = VLESS_ADDR_IPV4 THEN SubSeq(address, 1, 4)
  ELSE IF addressType = VLESS_ADDR_IPV6 THEN SubSeq(address, 1, 16)
  ELSE <<>>

\* The address data build_vless_request_header writes after the type byte.
AddressData(addressType, address, addressLen) ==
  IF addressType = VLESS_ADDR_DOMAIN
  THEN << uint8_t(addressLen) >> \o SubSeq(address, 1, addressLen)
  ELSE IF addressType = VLESS_ADDR_IPV4 THEN SubSeq(address, 1, 4)
  ELSE IF addressType = VLESS_ADDR_IPV6 THEN SubSeq(address, 1, 16)
  ELSE <<>>

\* build_vless_request_header(buffer, uuid, command, port, addressType,
\* address, addressLen): the bytes written from offset 0 on, and the offset
\* returned.
build_vless_request_header(uuid, command, port, addressType, address, addressLen) ==
  LET buffer == << 0 >> \o SubSeq(uuid, 1, 16) \o << 0, command >> \o PortBytes(port)
                \o << addressType >> \o AddressData(addressType, address, addressLen)
  IN [buffer |-> buffer, ret |-> Len(buffer)]

\* The characters of a text; the terminating '\0' of a C string.
NUL == "NUL"
Digits == {"0", "1", "2", "3", "4", "5", "6", "7", "8", "9"}
DigitVal(c) ==
  CASE c = "0" -> 0 [] c = "1" -> 1 [] c = "2" -> 2 [] c = "3" -> 3 [] c = "4" -> 4
    [] c = "5" -> 5 [] c = "6" -> 6 [] c = "7" -> 7 [] c = "8" -> 8 [] c = "9" -> 9
isspace(c) == c \in {" ", "\t", "\n", "\r"}

RECURSIVE SkipSpace(_, _)
SkipSpace(buf, i) == IF isspace(buf[i]) THEN SkipSpace(buf, i + 1) ELSE i

RECURSIVE ReadDigits(_, _, _)
ReadDigits(buf, i, acc) ==
  IF buf[i] \in Digits THEN ReadDigits(buf, i + 1, acc * 10 + DigitVal(buf[i]))
  ELSE [val |-> acc, end |-> i]

\* strtol(ptr, &end, 10) on the text buf from position ptr: white space is
\* skipped, one sign is taken, then the digits; with no digit the value is 0
\* and end is ptr.  (A long holds every number of 15 digits.)
strtol(buf, ptr) ==
  LET i == SkipSpace(buf, ptr)
      j == IF buf[i] \in {"+", "-"} THEN i + 1 ELSE i
      r == ReadDigits(buf, j, 0)
  IN IF r.end = j THEN [val |-> 0, end |-> ptr]
     ELSE [val |-> IF buf[i] = "-" THEN 0 - r.val ELSE r.val, end |-> r.end]

\* The loop of parse_ipv4_address (lines 73-83): parts holds parts[0..count-1].
RECURSIVE ParseParts(_, _, _)
ParseParts(buf, ptr, parts) ==
  IF Len(parts) >= 4 THEN [ok |-> TRUE, parts |-> parts]
  ELSE LET r == strtol(buf, ptr) IN
       IF r.val < 0 \/ r.val > 255 THEN [ok |-> FALSE, parts |-> parts]
       ELSE IF ptr = r.end THEN [ok |-> FALSE, parts |-> parts]
       ELSE LET parts1 == Append(parts, r.val) IN
            IF buf[r.end] = NUL THEN [ok |-> TRUE, parts |-> parts1]
            ELSE IF buf[r.end] /= "." THEN [ok |-> FALSE, parts |-> parts1]
            ELSE ParseParts(buf, r.end + 1, parts1)

\* Variant of parse_ipv4_address: 255 is refused.
parse_ipv4_address_lt255(str, strLen, outBytes) ==
  IF strLen = 0 \/ strLen > 15 THEN [ret |-> 0, outBytes |-> outBytes]
  ELSE LET r == ParseParts(SubSeq(str, 1, strLen) \o << NUL >>, 1, <<>>)
       IN IF ~r.ok \/ Len(r.parts) /= 4 \/ 255 \in { r.parts[i] : i \in DOMAIN r.parts }
          THEN [ret |-> 0, outBytes |-> outBytes]
          ELSE [ret |-> 1, outBytes |-> [i \in 1..4 |-> uint8_t(r.parts[i])]]

\* parse_ipv4_address(str, strLen, outBytes): the value returned and the
\* caller's four bytes after the call.
parse_ipv4_address(str, strLen, outBytes) ==
  IF strLen = 0 \/ strLen > 15 THEN [ret |-> 0, outBytes |-> outBytes]
  ELSE LET r == ParseParts(SubSeq(str, 1, strLen) \o << NUL >>, 1, <<>>)
       IN IF ~r.ok \/ Len(r.parts) /= 4
          THEN [ret |-> 0, outBytes |-> outBytes]
          ELSE [ret |-> 1, outBytes |-> [i \in 1..4 |-> uint8_t(r.parts[i])]]

\* The calls of the two functions of CVLESS.c: the arguments are drawn at
\* the start, the action applies the function to them.

Uuids == { [i \in 1..16 |-> i], [i \in 1..16 |-> 255] }
Ports == {0, 80, 256, 443, 65535}
DomainLens == {0, 1, 3, 255}

\* Typed addresses: <<addressType, address>>.
Addresses ==
  { <<VLESS_ADDR_IPV4, a.bytes>> : a \in Dst4 \cup {Ip4(255, 255, 255, 255)} }
  \cup { <<VLESS_ADDR_IPV6, a.bytes>> : a \in Dst6 }
  \cup { <<VLESS_ADDR_DOMAIN, [i \in 1..n |-> 97 + (i % 26)]>> : n \in DomainLens }

BuildCalls ==
  { [Ev("call:build_vless_request_header") EXCEPT
       !.tup = <<uuid, command, port, a[1], a[2]>>, !.n = Len(a[2])] :
      uuid \in Uuids, command \in {VLESS_CMD_TCP, VLESS_CMD_UDP}, port \in Ports,
      a \in Addresses }

\* The groups a text is made of: octets written plainly, and at most one
\* group of another shape.
PlainGroups == { <<"1">>, <<"2", "5", "5">> }
OtherGroups ==
  { <<"0">>, <<"0", "2", "5", "5">>, <<"2", "5", "6">>, <<"+", "1">>, <<"-", "1">>,
    <<"-", "0">>, <<" ", "1">>, <<"1", " ">>, <<"x">>, <<"1", "x">>, <<>> }

GroupSeqs ==
  UNION { { [i \in 1..k |-> IF i = at THEN o ELSE g[i]] :
              g \in [1..k -> PlainGroups], at \in 0..k, o \in OtherGroups } :
          k \in 1..MaxGroups }

\* The groups joined by dots.
RECURSIVE Join(_)
Join(gs) ==
  IF Len(gs) = 0 THEN <<>>
  ELSE IF Len(gs) = 1 THEN gs[1]
  ELSE gs[1] \o << "." >> \o Join(Tail(gs))

ParseCalls ==
  { [Ev("call:parse_ipv4_address") EXCEPT !.data = Join(gs), !.tup = gs, !.n = Len(Join(gs))] :
      gs \in GroupSeqs }

\* What the caller's four bytes hold before parse_ipv4_address is called.
OldBytes == <<170, 170, 170, 170>>

InitVless ==
  /\ s_output_fn = FALSE
  /\ s_tcp_accept_fn = FALSE
  /\ s_tcp_recv_fn = FALSE
  /\ s_tcp_sent_fn = FALSE
  /\ s_tcp_err_fn = FALSE
  /\ s_udp_recv_fn = FALSE
  /\ tun_netif = "unset"
  /\ tcp_listen_pcb_v4 = NullListener
  /\ tcp_listen_pcb_v6 = NullListener
  /\ udp_listen_pcb_v4 = NullListener
  /\ udp_listen_pcb_v6 = NullListener
  /\ udp_pcbs = {}
  /\ s_current_udp_dst_port = 0
  /\ s_current_udp_dst_ip = IpZero
  /\ pcbs = [s \in Slots |-> FreePcb]
  /\ tcp_active_pcbs = <<>>
  /\ tcp_tw_pcbs = <<>>
  /\ nextFid = 1
  /\ life = [f \in Flows |-> "none"]
  /\ trace \in { << call >> : call \in BuildCalls \cup ParseCalls }

BuildVlessRequestHeader ==
  /\ Len(trace) = 1
  /\ trace[1].op = "call:build_vless_request_header"
  /\ LET a == trace[1].tup
         r == build_vless_request_header(a[1], a[2], a[3], a[4], a[5], trace[1].n)
     IN trace' = trace \o << [Ev("ret:build_vless_request_header") EXCEPT
                               !.data = r.buffer, !.n = r.ret] >>
  /\ UNCHANGED <<fns, tun_netif, listeners, udp_pcbs, scratch, tcpState, nextFid, life>>

ParseIpv4Address ==
  /\ Len(trace) = 1
  /\ trace[1].op = "call:parse_ipv4_address"
  /\ LET r == parse_ipv4_address(trace[1].data, trace[1].n, OldBytes)
     IN trace' = trace \o << [Ev("ret:parse_ipv4_address") EXCEPT
                               !.data = r.outBytes, !.n = r.ret] >>
  /\ UNCHANGED <<fns, tun_netif, listeners, udp_pcbs, scratch, tcpState, nextFid, life>>

NextVless ==
  \/ BuildVlessRequestHeader
  \/ ParseIpv4Address

SpecVless == InitVless /\ [][NextVless]_vars

\* ------------------------------------------------------------------------
\* Properties
\* ------------------------------------------------------------------------

\* The calls of the external TCP callbacks on a handle.
NotifyOps == {"tcp_recv_fn", "tcp_sent_fn", "tcp_err_fn"}

\* The flow histories before event i of the step from the current state.
LifeAt(eff, i) == LifeAfter(life, SubSeq(eff, 1, i - 1))

\* C1: every call of the external UDP receive callback reports as
\* destination address and port the destination address and port of the
\* packet whose ingress triggered it.
C1_DatagramDestinationIsThePackets ==
  \A i \in DOMAIN trace :
    trace[i].op = "udp_recv_fn" =>
      \E m \in 1..(i - 1) :
        /\ trace[m].op = "call:udp_recv_cb"
        /\ trace[i].tup[3] = trace[m].tup[3]
        /\ trace[i].tup[4] = trace[m].tup[4]

\* What tcp_accept_cb registers on a connection.
RegisterOps == {"tcp_arg", "tcp_recv", "tcp_sent", "tcp_err"}

\* C2: when the external accept callback returns no handle, tcp_accept_cb
\* aborts the connection at once (the engine frees it), registers no
\* callback on it, and nothing is ever notified for that connection: not in
\* the same call and not in any later one.
C2_RefusedConnectionAborted ==
  /\ \A i \in DOMAIN trace :
       (trace[i].op = "tcp_accept_fn" /\ trace[i].arg = NULL) =>
         /\ i + 2 <= Len(trace)
         /\ trace[i + 1].op = "tcp_abort" /\ trace[i + 1].fid = trace[i].fid
         /\ trace[i + 2].op = "tcp_free" /\ trace[i + 2].fid = trace[i].fid
  /\ \A f \in Flows :
       life[f] = "refused" =>
         /\ \A s \in Slots : pcbs[s].fid /= f
         /\ \A i \in DOMAIN trace :
              trace[i].fid = f => trace[i].op \notin NotifyOps \cup RegisterOps

\* A connection has just been refused.
C2_Refused ==
  \E i \in DOMAIN trace :
    /\ trace[i].op = "tcp_accept_fn" /\ trace[i].arg = NULL
    /\ life[trace[i].fid] = "refused"

\* The handle the external accept callback returns for a flow: the relay
\* layer makes one object per accepted connection.
HandleOf(f) == f

\* C3: the handle the external accept callback returned for a flow is the
\* one registered on that flow for as long as the flow has a handle; every
\* recv, sent and err notification raised on a flow carries the handle of
\* that flow, and so never the handle of another flow.
C3_HandleBoundToItsFlow ==
  /\ \A i \in DOMAIN trace :
       trace[i].op \in NotifyOps =>
         /\ trace[i].fid \in Flows
         /\ trace[i].arg /= NULL
         /\ trace[i].arg = HandleOf(trace[i].fid)
  /\ \A i \in DOMAIN trace :
       (trace[i].op = "tcp_accept_fn" /\ trace[i].arg /= NULL) =>
         /\ trace[i].arg = HandleOf(trace[i].fid)
         /\ \E j \in DOMAIN trace :
              /\ j > i /\ trace[j].op = "tcp_arg"
              /\ trace[j].fid = trace[i].fid /\ trace[j].arg = trace[i].arg
  /\ \A s \in Slots :
       /\ pcbs[s].callback_arg /= NULL => pcbs[s].callback_arg = HandleOf(pcbs[s].fid)
       /\ Held(s) => /\ pcbs[s].callback_arg = HandleOf(pcbs[s].fid)
                     /\ pcbs[s].recv = "tcp_recv_cb"
                     /\ pcbs[s].sent = "tcp_sent_cb"
                     /\ pcbs[s].errf = "tcp_err_cb"

\* The second flow is notified while the first still has its handle.
C3_TwoFlowsNotified ==
  /\ life[1] = "bound"
  /\ \E i \in DOMAIN trace :
       trace[i].op \in NotifyOps /\ trace[i].fid = 2 /\ trace[i].arg = HandleOf(2)

\* C4: when the engine reports a new connection (the handshake of a SYN
\* taken by the catch-all listener is complete) and an accept callback is
\* registered, the external accept callback is called exactly once for that
\* connection, with the source address and port, the destination address,
\* the destination port (never the listener's port 0) and the family of the
\* SYN; it is called at no other time, so never twice for a connection.
C4_AcceptOncePerConnection ==
  [][ /\ \A i \in DOMAIN trace' :
           (trace'[i].op = "TCP_EVENT_ACCEPT" /\ trace'[i].fid /= 0 /\ s_tcp_accept_fn) =>
             /\ LifeAt(trace', i)[trace'[i].fid] = "syn"
             /\ i + 1 <= Len(trace')
             /\ trace'[i + 1].op = "tcp_accept_fn"
             /\ trace'[i + 1].fid = trace'[i].fid
             /\ trace'[i + 1].tup = trace'[i].tup
             /\ trace'[i + 1].tup[4] /= 0
             /\ Cardinality({ j \in DOMAIN trace' :
                    trace'[j].op = "tcp_accept_fn" /\ trace'[j].fid = trace'[i].fid }) = 1
      /\ \A j \in DOMAIN trace' :
           trace'[j].op = "tcp_accept_fn" =>
             /\ j > 1
             /\ trace'[j - 1].op = "TCP_EVENT_ACCEPT"
             /\ trace'[j - 1].fid = trace'[j].fid
             /\ LifeAt(trace', j - 1)[trace'[j].fid] = "syn"
    ]_vars

\* An IPv6 connection to port 2 has just been offered to the accept callback.
C4_AcceptedV6 ==
  \E i \in DOMAIN trace :
    /\ trace[i].op = "tcp_accept_fn"
    /\ trace[i].tup = <<Src6.bytes, 7, Ip6(1).bytes, 2, 1>>

\* The receive events the engine raises on a connection.
RecvEvents == {"TCP_EVENT_RECV", "TCP_EVENT_CLOSED"}

\* The events of eff between the receive event at i and the return of the
\* callback it called: j is where that callback returns.
ReturnsAt(eff, i, j) ==
  /\ j \in DOMAIN eff /\ j > i
  /\ eff[j].op = "ret:tcp_recv_cb"
  /\ \A k \in (i + 1)..(j - 1) : eff[k].op /= "ret:tcp_recv_cb"

RecvCalls(eff, i, j) == { k \in (i + 1)..(j - 1) : eff[k].op = "tcp_recv_fn" }

CoalesceFailed(eff, i, j) ==
  \E k \in (i + 1)..(j - 1) : eff[k].op = "mem_malloc" /\ eff[k].err = "NULL"

\* The one call a receive event makes: the handle of the flow, all the
\* bytes of the buffer, or NULL and length 0 at end of stream.
IsDelivery(call, event) ==
  /\ call.arg = event.arg
  /\ call.fid = event.fid
  /\ call.data = event.data
  /\ call.n = Len(event.data)
  /\ (call.err = "NULL") <=> (event.err = "NULL")

\* C5 (amended): while a recv callback is registered, every receive event
\* the engine raises on a flow with a bound handle makes exactly one call of
\* the external recv callback before the next event, with all the bytes of
\* the buffer (coalesced when it is chained) or NULL and 0 at end of stream,
\* except that a chained buffer whose coalescing allocation fails makes no
\* call at all: its bytes are dropped.  No call is made without an event.
C5_RecvOncePerEventOrDropped ==
  /\ \A i \in DOMAIN trace :
       (trace[i].op \in RecvEvents /\ trace[i].arg /= NULL /\ s_tcp_recv_fn) =>
         \E j \in DOMAIN trace :
           /\ ReturnsAt(trace, i, j)
           /\ IF CoalesceFailed(trace, i, j)
              THEN /\ RecvCalls(trace, i, j) = {}
                   /\ trace[i].n > 1
              ELSE /\ Cardinality(RecvCalls(trace, i, j)) = 1
                   /\ \A k \in RecvCalls(trace, i, j) : IsDelivery(trace[k], trace[i])
  /\ \A k \in DOMAIN trace :
       trace[k].op = "tcp_recv_fn" =>
         \E i \in 1..(k - 1), j \in (k + 1)..Len(trace) :
           trace[i].op \in RecvEvents /\ ReturnsAt(trace, i, j)

\* C5 as stated: every receive event on a flow with a bound handle makes
\* exactly one call with all the bytes, also when the buffer is chained.
C5_RecvOncePerEvent ==
  \A i \in DOMAIN trace :
    (trace[i].op \in RecvEvents /\ trace[i].arg /= NULL /\ s_tcp_recv_fn) =>
      \E j \in DOMAIN trace :
        /\ ReturnsAt(trace, i, j)
        /\ Cardinality(RecvCalls(trace, i, j)) = 1
        /\ \A k \in RecvCalls(trace, i, j) : IsDelivery(trace[k], trace[i])

\* A chained buffer was delivered coalesced, then the end of the stream.
C5_ChainThenEof ==
  \E k, m \in DOMAIN trace :
    /\ k < m
    /\ trace[k].op = "tcp_recv_fn" /\ trace[k].data = <<1, 2>> /\ trace[k].n = 2
    /\ trace[k - 1].op = "mem_malloc"
    /\ trace[m].op = "tcp_recv_fn" /\ trace[m].err = "NULL" /\ trace[m].n = 0

\* The calls of the two receive callbacks and their returns.
CallOps == {"call:tcp_recv_cb", "call:udp_recv_cb"}
RetOps == {"ret:tcp_recv_cb", "ret:udp_recv_cb"}

\* The events between the call at i and its return at j.
Inside(eff, i, j, ops) == { k \in (i + 1)..(j - 1) : eff[k].op \in ops }

\* C6: inside every call of tcp_recv_cb or udp_recv_cb that is passed a
\* buffer, the buffer is released exactly once, after the external callback
\* that reads it has returned if one is called; the temporary coalescing
\* buffer, if one was obtained, is freed exactly once after the external
\* callback has returned and is not freed when none was obtained.  A call
\* without a buffer releases nothing.
C6_BufferReleasedOnce ==
  \A i \in DOMAIN trace :
    trace[i].op \in CallOps =>
      \E j \in (i + 1)..Len(trace) :
        /\ trace[j].op \in RetOps
        /\ Inside(trace, i, j, CallOps \cup RetOps) = {}
        /\ LET frees == Inside(trace, i, j, {"pbuf_free"})
               calls == Inside(trace, i, j, {"tcp_recv_fn", "udp_recv_fn"})
               mfrees == Inside(trace, i, j, {"mem_free"})
               mallocs == { k \in Inside(trace, i, j, {"mem_malloc"}) : trace[k].err /= "NULL" }
           IN /\ Cardinality(frees) = (IF trace[i].err = "NULL" THEN 0 ELSE 1)
              /\ \A f \in frees, c \in calls : c < f
              /\ Cardinality(calls) <= 1
              /\ Cardinality(mallocs) <= 1
              /\ Cardinality(mfrees) = Cardinality(mallocs)
              /\ \A m \in mfrees : /\ \E c \in calls : c < m
                                    /\ \A a \in mallocs : a < m
                                    /\ \A f \in frees : m < f

\* tcp_recv_cb was called with a buffer and no handle, and has released it.
C6_NoHandleReleased ==
  /\ Len(trace) = 3
  /\ trace[1].op = "call:tcp_recv_cb" /\ trace[1].arg = NULL /\ trace[1].err /= "NULL"
  /\ trace[2].op = "pbuf_free"
  /\ trace[3].op = "ret:tcp_recv_cb" /\ trace[3].err = "ERR_ABRT"

\* The notifications of eff that carry the handle of flow f.
NotifiedAt(eff, f) ==
  { k \in DOMAIN eff : eff[k].op \in NotifyOps /\ eff[k].arg = HandleOf(f) }

\* C7: when the engine raises its error event on a flow whose handle is
\* bound (it aborts the flow, times it out, or the remote end resets it) and
\* an error callback is registered, the external error callback is called at
\* once, exactly once for that handle, with the engine's error code; nothing
\* is notified to that handle after it, in that call or in any later one.
\* The engine never frees a flow with a bound handle without that event.
C7_EngineErrorNotifiedOnce ==
  [][ /\ \A i \in DOMAIN trace' :
           (/\ trace'[i].op = "TCP_EVENT_ERR"
            /\ trace'[i].fid /= 0
            /\ LifeAt(trace', i)[trace'[i].fid] \in {"bound", "freed"}
            /\ s_tcp_err_fn) =>
             /\ i + 1 <= Len(trace')
             /\ trace'[i + 1].op = "tcp_err_fn"
             /\ trace'[i + 1].arg = HandleOf(trace'[i].fid)
             /\ trace'[i + 1].err = trace'[i].err
             /\ trace'[i].err \in {"ERR_ABRT", "ERR_RST"}
             /\ \A k \in NotifiedAt(trace', trace'[i].fid) :
                  k <= i + 1 /\ (trace'[k].op = "tcp_err_fn" => k = i + 1)
      /\ \A f \in Flows :
           /\ life[f] = "errored" => NotifiedAt(trace', f) = {}
           /\ life'[f] /= "freed"
    ]_vars

\* The remote end has reset a flow and its handle was told ERR_RST.
C7_ResetNotified ==
  \E i \in DOMAIN trace :
    /\ trace[i].op = "TCP_EVENT_ERR" /\ trace[i].err = "ERR_RST"
    /\ i + 1 <= Len(trace)
    /\ trace[i + 1].op = "tcp_err_fn" /\ trace[i + 1].err = "ERR_RST"
    /\ trace[i + 1].arg = HandleOf(trace[i].fid)
    /\ life[trace[i].fid] = "errored"

\* The registrations of a connection are cleared.
Cleared(pcb) ==
  /\ pcb.callback_arg = NULL
  /\ pcb.recv = "NULL"
  /\ pcb.sent = "NULL"
  /\ pcb.errf = "NULL"

\* C8: once lwip_bridge_tcp_close or lwip_bridge_tcp_abort has returned for
\* a flow, no recv, sent or err notification is delivered to the handle that
\* was bound to it, and none is raised on the flow, in any later call
\* (ingress, timers, shutdown): what is left of the connection in passive
\* teardown has no callback and no argument registered.
C8_NoNotificationAfterCloseOrAbort ==
  [][ \A f \in Flows :
        /\ life[f] = "closed" =>
             /\ NotifiedAt(trace', f) = {}
             /\ \A k \in DOMAIN trace' :
                  trace'[k].fid = f => trace'[k].op \notin NotifyOps
             /\ life'[f] = "closed"
        /\ life'[f] = "closed" =>
             \A s \in Slots : pcbs'[s].fid = f => Cleared(pcbs'[s])
    ]_vars

\* A flow the relay layer has closed is timed out by the engine during its
\* passive teardown.
C8_TeardownTimedOut ==
  /\ trace /= <<>>
  /\ trace[1].op = "lwip_bridge_check_timeouts"
  /\ \E i \in DOMAIN trace :
       /\ trace[i].op = "TCP_EVENT_ERR"
       /\ trace[i].fid /= 0
       /\ life[trace[i].fid] = "closed"

\* C9 (amended): a flow with a bound handle ends in one of two ways.  When
\* the engine raises its error event on it (reset, timeout, abort at
\* shutdown) and an error callback is registered, the handle is notified
\* exactly once in that call, through the error callback.  When the relay
\* layer itself closes or aborts it, the handle is not notified at all in
\* that call.  Either way the handle is never notified again.
C9_NotifiedOnceByEngineNeverByRelay ==
  [][ \A f \in Flows :
        /\ life[f] = "bound" =>
             /\ life'[f] \in {"bound", "errored", "closed"}
             /\ (life'[f] = "errored" /\ s_tcp_err_fn) =>
                  /\ Cardinality(NotifiedAt(trace', f)) = 1
                  /\ \A k \in NotifiedAt(trace', f) : trace'[k].op = "tcp_err_fn"
             /\ life'[f] = "closed" => NotifiedAt(trace', f) = {}
        /\ life[f] \in {"errored", "closed"} =>
             /\ life'[f] = life[f]
             /\ NotifiedAt(trace', f) = {}
    ]_vars

\* C9 as stated: whatever ends a flow with a bound handle, a close or abort
\* by the relay layer included, the handle is notified exactly once then.
C9_NotifiedOnceWhateverEnds ==
  [][ \A f \in Flows :
        (life[f] = "bound" /\ life'[f] \in {"errored", "closed"} /\ s_tcp_err_fn) =>
          Cardinality(NotifiedAt(trace', f)) = 1
    ]_vars

\* The relay layer has aborted a flow: the engine raised its error event on
\* it and the handle was told nothing.
C9_RelayAbortSilent ==
  /\ trace /= <<>>
  /\ trace[1].op = "lwip_bridge_tcp_abort"
  /\ s_tcp_err_fn
  /\ life[trace[1].fid] = "closed"
  /\ \E i \in DOMAIN trace :
       trace[i].op = "TCP_EVENT_ERR" /\ trace[i].fid = trace[1].fid
  /\ NotifiedAt(trace, trace[1].fid) = {}

\* C10: lwip_bridge_shutdown, with an error callback registered, calls the
\* external error callback exactly once, with ERR_ABRT, for every flow that
\* is active with a bound handle, so N times for N such flows, and notifies
\* nothing else: nothing for flows the relay layer has closed (in passive
\* teardown or TIME_WAIT) and nothing for connections that have no handle.
\* It leaves no connection behind.
C10_ShutdownNotifiesEachActiveFlowOnce ==
  [][ (trace' /= <<>> /\ trace'[1].op = "lwip_bridge_shutdown" /\ s_tcp_err_fn) =>
        /\ \A f \in Flows :
             IF life[f] = "bound"
             THEN /\ Cardinality(NotifiedAt(trace', f)) = 1
                  /\ \A k \in NotifiedAt(trace', f) :
                       trace'[k].op = "tcp_err_fn" /\ trace'[k].err = "ERR_ABRT"
                  /\ life'[f] = "errored"
             ELSE /\ NotifiedAt(trace', f) = {}
                  /\ \A k \in DOMAIN trace' :
                       trace'[k].fid = f => trace'[k].op \notin NotifyOps
        /\ Cardinality({ k \in DOMAIN trace' : trace'[k].op \in NotifyOps })
             = Cardinality({ f \in Flows : life[f] = "bound" })
        /\ \A s \in Slots : pcbs'[s] = FreePcb
        /\ tcp_active_pcbs' = <<>> /\ tcp_tw_pcbs' = <<>>
    ]_vars

\* Shutdown has just notified two flows.
C10_TwoFlowsAborted ==
  /\ trace /= <<>>
  /\ trace[1].op = "lwip_bridge_shutdown"
  /\ Cardinality({ k \in DOMAIN trace : trace[k].op = "tcp_err_fn" }) = 2
  /\ \A f \in {1, 2} : life[f] = "errored"

\* The events of eff with one of the operations ops.
EventsOf(eff, ops) == { k \in DOMAIN eff : eff[k].op \in ops }

\* C11: lwip_bridge_shutdown ends after one round of its first loop per
\* active flow and one round of its second loop per TIME_WAIT flow; when it
\* returns no active and no TIME_WAIT flow remains, every listener that
\* existed has been closed or removed once and its reference is NULL, and
\* the interface has been set down and removed, in that order; every flow
\* is aborted or freed before the first listener is closed.
C11_ShutdownLeavesNothing ==
  [][ (trace' /= <<>> /\ trace'[1].op = "lwip_bridge_shutdown") =>
        LET n == Len(trace')
            gone == EventsOf(trace', {"tcp_abort", "tcp_free"})
            closes == EventsOf(trace', {"tcp_close", "udp_remove"})
        IN /\ tcp_active_pcbs' = <<>>
           /\ tcp_tw_pcbs' = <<>>
           /\ \A s \in Slots : pcbs'[s].state = "FREE"
           /\ Cardinality(EventsOf(trace', {"tcp_abort"})) = Len(tcp_active_pcbs)
           /\ Cardinality(EventsOf(trace', {"tcp_free"}))
                = Len(tcp_active_pcbs) + Len(tcp_tw_pcbs)
           /\ tcp_listen_pcb_v4' = NullListener
           /\ tcp_listen_pcb_v6' = NullListener
           /\ udp_listen_pcb_v4' = NullListener
           /\ udp_listen_pcb_v6' = NullListener
           /\ Cardinality(closes)
                = Cardinality({ i \in 1..4 : listeners[i].valid })
           /\ \A a \in gone, c \in closes : a < c
           /\ \A c \in closes : c < n - 1
           /\ n >= 3
           /\ trace'[n - 1].op = "netif_set_down"
           /\ trace'[n].op = "netif_remove"
           /\ tun_netif' = "removed"
    ]_vars

\* Shutdown has aborted an active flow and freed a TIME_WAIT flow.
C11_ActiveAndTimeWaitGone ==
  /\ trace /= <<>>
  /\ trace[1].op = "lwip_bridge_shutdown"
  /\ tun_netif = "removed"
  /\ EventsOf(trace, {"tcp_abort"}) /= {}
  /\ \E k \in EventsOf(trace, {"tcp_free"}) : trace[k - 1].op /= "tcp_abort"

\* C12: from lwip_bridge_init until shutdown there is one TCP listener and
\* one UDP listener per family, each with local port 0, so that it takes
\* what is sent to any port, and each with the bridge's callback installed:
\* tcp_accept_cb on the TCP listeners, udp_recv_cb on the UDP listeners.
C12_CatchAllListenersWhileUp ==
  tun_netif = "up" =>
    /\ \A i \in 1..4 :
         /\ listeners[i].valid
         /\ listeners[i].local_port = 0
         /\ \A port \in DstPorts : Listens(listeners[i], port)
    /\ tcp_listen_pcb_v4.cb = "tcp_accept_cb"
    /\ tcp_listen_pcb_v6.cb = "tcp_accept_cb"
    /\ udp_listen_pcb_v4.cb = "udp_recv_cb"
    /\ udp_listen_pcb_v6.cb = "udp_recv_cb"

\* The bridge is up and the TCP listener has just taken a connection.
C12_ListenerTookConnection ==
  /\ tun_netif = "up"
  /\ tcp_listen_pcb_v4.local_port = 0
  /\ EventsOf(trace, {"tcp_accept_fn"}) /= {}

\* C13: a call of lwip_bridge_input with null data, with len <= 0, with
\* version 4 and len < 20, with version 6 and len < 40, or with another
\* version does nothing: no buffer is allocated, nothing is given to the
\* engine, no callback is raised and the recorded UDP destination is what
\* it was.  When pbuf_alloc fails the call ends there; when the engine's
\* input returns an error the buffer is freed once and no callback is
\* raised.  In every case the interface, the listeners, the connections
\* and the registered callbacks are what they were.
C13_BadInputDropped ==
  [][ (trace' /= <<>> /\ trace'[1].op = "lwip_bridge_input") =>
        LET e == trace'[1]
            refused == \/ e.err = "NULL"
                       \/ e.n <= 0
                       \/ e.arg = 4 /\ e.n < 20
                       \/ e.arg = 6 /\ e.n < 40
                       \/ e.arg \notin {4, 6}
            allocFailed == \E k \in DOMAIN trace' :
                              trace'[k].op = "pbuf_alloc" /\ trace'[k].err = "NULL"
            inputFailed == \E k \in DOMAIN trace' :
                              trace'[k].op = "input" /\ trace'[k].err /= "ERR_OK"
            dropped == refused \/ allocFailed \/ inputFailed
        IN /\ refused => Len(trace') = 1 /\ scratch' = scratch
           /\ allocFailed => Len(trace') = 2
           /\ inputFailed =>
                /\ Cardinality(EventsOf(trace', {"pbuf_free"})) = 1
                /\ trace'[Len(trace')].op = "pbuf_free"
                /\ \A k \in DOMAIN trace' :
                     trace'[k].op \in {"lwip_bridge_input", "pbuf_alloc", "pbuf_take",
                                       "input", "pbuf_free"}
           /\ dropped =>
                /\ EventsOf(trace', {"udp_recv_fn", "call:udp_recv_cb"}) = {}
                /\ tcpState' = tcpState
                /\ tun_netif' = tun_netif
                /\ listeners' = listeners
                /\ fns' = fns
    ]_vars

\* A version-6 packet of 39 bytes was refused after a datagram had set the
\* recorded destination.
C13_ShortV6Refused ==
  /\ trace = << [Ev("lwip_bridge_input") EXCEPT !.n = 39, !.arg = 6] >>
  /\ s_current_udp_dst_port /= 0
  /\ tun_netif = "up"

\* The family flag the output callback is given by each output function.
OutputFlag(op) == IF op = "call:netif_output_ip6" THEN 1 ELSE 0

\* C14: while an output callback is registered, for every packet the
\* engine gives to netif_output_ip4 or netif_output_ip6 the callback is
\* called exactly once, with all tot_len bytes of the packet in order as one
\* byte sequence and with flag 0 from netif_output_ip4 and 1 from
\* netif_output_ip6; a packet of several buffers is copied into one
\* allocation that is made once and freed once after the call; when that
\* allocation fails the callback is not called and no second allocation is
\* tried.  The function returns ERR_OK in every case.
C14_OutputOncePerPacket ==
  \A i \in DOMAIN trace :
    (trace[i].op \in {"call:netif_output_ip4", "call:netif_output_ip6"}
       /\ trace[i].err /= "NULL" /\ s_output_fn) =>
      LET outs == EventsOf(trace, {"output_fn"})
          allocs == EventsOf(trace, {"mem_malloc"})
          failed == \E k \in allocs : trace[k].err = "NULL"
      IN /\ Cardinality(allocs) = IF trace[i].n > 1 THEN 1 ELSE 0
         /\ IF failed
            THEN outs = {} /\ EventsOf(trace, {"mem_free"}) = {}
            ELSE /\ Cardinality(outs) = 1
                 /\ \A k \in outs :
                      /\ trace[k].data = trace[i].data
                      /\ trace[k].n = Len(trace[i].data)
                      /\ trace[k].arg = OutputFlag(trace[i].op)
                      /\ \A a \in allocs : a < k
                      /\ \A m \in EventsOf(trace, {"mem_free"}) : k < m
                 /\ Cardinality(EventsOf(trace, {"mem_free"})) = Cardinality(allocs)
         /\ trace[Len(trace)].err = "ERR_OK"

\* An IPv6 packet of three buffers has been given to the callback as one
\* sequence.
C14_ChainCoalescedV6 ==
  /\ s_output_fn
  /\ trace /= <<>>
  /\ trace[1].op = "call:netif_output_ip6"
  /\ trace[1].n = 3
  /\ \E k \in EventsOf(trace, {"output_fn"}) :
       trace[k].data = <<1, 2, 3>> /\ trace[k].arg = 1

\* The events of eff with one of the operations ops that did not fail.
Succeeded(eff, ops) == { k \in EventsOf(eff, ops) : eff[k].err \in {"", "ERR_OK", "pcb"} }

\* C15: a call of lwip_bridge_udp_sendto with data makes at most one
\* context, binds it to the given source address and port, and, when
\* nothing fails, sends all len bytes of the data to the given destination
\* address and port with that source; on every path each context made has
\* been removed and each buffer allocated has been freed when it returns,
\* and the UDP contexts in use and the listeners are what they were.
C15_SendtoLeavesContextsAsTheyWere ==
  [][ (trace' /= <<>> /\ trace'[1].op = "lwip_bridge_udp_sendto"
         /\ trace'[1].err /= "NULL" /\ trace'[1].n > 0) =>
        LET e == trace'[1]
            news == Succeeded(trace', {"udp_new_ip_type"})
            binds == Succeeded(trace', {"udp_bind"})
            allocs == Succeeded(trace', {"pbuf_alloc"})
            sends == EventsOf(trace', {"udp_sendto_if_src"})
        IN /\ Cardinality(EventsOf(trace', {"udp_new_ip_type"})) = 1
           /\ \A b \in binds : trace'[b].tup = <<e.tup[1], e.tup[2]>>
           /\ Cardinality(sends) = Cardinality(allocs)
           /\ \A k \in sends :
                /\ binds /= {}
                /\ trace'[k].tup = e.tup
                /\ trace'[k].arg = e.arg
                /\ trace'[k].n = e.n
           /\ Cardinality(EventsOf(trace', {"udp_remove"})) = Cardinality(news)
           /\ Cardinality(EventsOf(trace', {"pbuf_free"})) = Cardinality(allocs)
           /\ udp_pcbs' = udp_pcbs
           /\ listeners' = listeners
    ]_vars

\* The call of build_vless_request_header in the trace has returned.
Built == Len(trace) = 2 /\ trace[2].op = "ret:build_vless_request_header"

\* The length of the address data the protocol has for an address.
PayloadLen(addressType, address) ==
  IF addressType = VLESS_ADDR_IPV4 THEN 4
  ELSE IF addressType = VLESS_ADDR_IPV6 THEN 16
  ELSE Len(address)

\* C16 (amended): for every uuid, command, port and typed address (IPv4
\* with 4 bytes, IPv6 with 16, Domain with n <= 255) the length
\* build_vless_request_header returns, and the number of bytes it writes, is
\* 22 + payloadLen, plus 1 when the address is a Domain.
C16_LengthIs22PlusPayload ==
  Built =>
    LET a == trace[1].tup
        expected == 22 + PayloadLen(a[4], a[5])
                    + (IF a[4] = VLESS_ADDR_DOMAIN THEN 1 ELSE 0)
    IN trace[2].n = expected /\ Len(trace[2].data) = expected

\* The header of a Domain address of 3 bytes has been built.
C16_DomainHeaderBuilt ==
  /\ Built
  /\ trace[1].tup[4] = VLESS_ADDR_DOMAIN
  /\ Len(trace[1].tup[5]) = 3
  /\ trace[2].n = 26

\* C16 as stated: the length returned is 21 + payloadLen, plus 1 when the
\* address is a Domain.
C16_LengthIs21PlusPayload ==
  Built =>
    LET a == trace[1].tup
    IN trace[2].n = 21 + PayloadLen(a[4], a[5])
                    + (IF a[4] = VLESS_ADDR_DOMAIN THEN 1 ELSE 0)

\* C17: the bytes build_vless_request_header writes are 0x00, the 16 bytes
\* of the uuid, 0x00, the command, the port's high byte and low byte, the
\* address type, then the address (after its length byte for a Domain, with
\* nothing before it for IPv4 and IPv6) and nothing else; the fields read
\* back at these offsets are the uuid, command, port, address type and
\* address given.
C17_LayoutAndRoundTrip ==
  Built =>
    LET a == trace[1].tup
        b == trace[2].data
    IN /\ \A i \in DOMAIN b : b[i] \in 0..255
       /\ Len(b) >= 22
       /\ b[1] = 0
       /\ SubSeq(b, 2, 17) = a[1]
       /\ b[18] = 0
       /\ b[19] = a[2]
       /\ b[20] * 256 + b[21] = a[3]
       /\ b[22] = a[4]
       /\ IF a[4] = VLESS_ADDR_DOMAIN
          THEN /\ Len(b) >= 23
               /\ b[23] = Len(a[5])
               /\ Len(b) = 23 + b[23]
               /\ SubSeq(b, 24, 23 + b[23]) = a[5]
          ELSE /\ Len(b) = 22 + PayloadLen(a[4], a[5])
               /\ SubSeq(b, 23, Len(b)) = a[5]

\* The header of a UDP request to an IPv6 address, port 443, has been built.
C17_Ipv6Port443Built ==
  /\ Built
  /\ trace[1].tup[2] = VLESS_CMD_UDP
  /\ trace[1].tup[3] = 443
  /\ trace[1].tup[4] = VLESS_ADDR_IPV6
  /\ SubSeq(trace[2].data, 19, 22) = <<VLESS_CMD_UDP, 1, 187, VLESS_ADDR_IPV6>>

\* C18: build_vless_request_header writes no byte at an offset of
\* 22 + addressLen or more, whatever the address type.
C18_BufferOf22PlusAddressLenSuffices ==
  Built => Len(trace[2].data) <= 22 + trace[1].n

\* The call of parse_ipv4_address in the trace has returned.
Parsed == Len(trace) = 2 /\ trace[2].op = "ret:parse_ipv4_address"

\* A group is a decimal octet: digits only, at least one, the number at
\* most 255.
OctetValue(g) == ReadDigits(g \o << NUL >>, 1, 0).val
IsOctet(g) == g /= <<>> /\ (\A i \in DOMAIN g : g[i] \in Digits) /\ OctetValue(g) <= 255
IsDottedQuad(gs) == Len(gs) = 4 /\ \A i \in DOMAIN gs : IsOctet(gs[i])

\* C19: parse_ipv4_address returns 0 for every text that is not four
\* decimal octets of 0..255 separated by dots (a trailing dot, a fifth
\* group, a sign, white space, a number above 255, fewer than four groups),
\* and whenever it returns 0 the caller's bytes are what they were.
C19_OnlyDottedQuadsParse ==
  Parsed =>
    /\ ~IsDottedQuad(trace[1].tup) => trace[2].n = 0
    /\ trace[2].n = 0 => trace[2].data = OldBytes

\* C20: for every text a.b.c.d of at most 15 characters with a, b, c, d
\* decimal numbers of 0..255, parse_ipv4_address returns 1 and the caller's
\* bytes are a, b, c, d in this order.
C20_DottedQuadParsed ==
  (Parsed /\ IsDottedQuad(trace[1].tup) /\ trace[1].n <= 15) =>
    /\ trace[2].n = 1
    /\ trace[2].data = [i \in 1..4 |-> OctetValue(trace[1].tup[i])]

\* "255.1.1.0" has been parsed.
C20_QuadWith255Parsed ==
  /\ Parsed
  /\ trace[1].data = <<"2", "5", "5", ".", "1", ".", "1", ".", "0">>
  /\ trace[2].n = 1
  /\ trace[2].data = <<255, 1, 1, 0>>

\* ------------------------------------------------------------------------
\* VLESS/CVLESS.c: parse_ipv6_address and parse_vless_address.

HexDigits ==
  Digits \cup {"a", "b", "c", "d", "e", "f", "A", "B", "C", "D", "E", "F"}
HexVal(c) ==
  CASE c \in Digits -> DigitVal(c)
    [] c \in {"a", "A"} -> 10 [] c \in {"b", "B"} -> 11 [] c \in {"c", "C"} -> 12
    [] c \in {"d", "D"} -> 13 [] c \in {"e", "E"} -> 14 [] c \in {"f", "F"} -> 15

\* The digits of strtol in base 16.  The parser asks of the value only
\* whether it is above 0xFFFF, so the sum stops growing at 0x10000.
RECURSIVE ReadHex(_, _, _)
ReadHex(buf, i, acc) ==
  IF buf[i] \in HexDigits
  THEN LET v == acc * 16 + HexVal(buf[i])
       IN ReadHex(buf, i + 1, IF v > 65536 THEN 65536 ELSE v)
  ELSE [val |-> acc, end |-> i]

\* strtol(ptr, &end, 16): white space is skipped, one sign is taken, then a
\* "0x" or "0X" that a digit follows, then the digits; with no digit the
\* value is 0 and end is ptr.
strtol16(buf, ptr) ==
  LET Number(i, k, r) ==
        IF r.end = k THEN [val |-> 0, end |-> ptr]
        ELSE [val |-> IF buf[i] = "-" THEN 0 - r.val ELSE r.val, end |-> r.end]
      Digits16(i, k) == Number(i, k, ReadHex(buf, k, 0))
      Prefix(i, j) ==
        Digits16(i, IF buf[j] = "0" /\ buf[j + 1] \in {"x", "X"} /\ buf[j + 2] \in HexDigits
                    THEN j + 2 ELSE j)
      Sign(i) == Prefix(i, IF buf[i] \in {"+", "-"} THEN i + 1 ELSE i)
  IN Sign(SkipSpace(buf, ptr))

\* The loop of parse_ipv6_address (lines 118-138): parts holds
\* parts[0..partCount-1], dc is doubleColonPos.
RECURSIVE ParseHextets(_, _, _, _)
ParseHextets(buf, ptr, parts, dc) ==
  IF buf[ptr] = NUL \/ Len(parts) >= 8 THEN [ok |-> TRUE, parts |-> parts, dc |-> dc]
  ELSE IF buf[ptr] = ":"
  THEN IF buf[ptr + 1] = ":"
       THEN IF dc >= 0 THEN [ok |-> FALSE, parts |-> parts, dc |-> dc]
            ELSE IF buf[ptr + 2] = NUL
                 THEN [ok |-> TRUE, parts |-> parts, dc |-> Len(parts)]
                 ELSE ParseHextets(buf, ptr + 2, parts, Len(parts))
       ELSE ParseHextets(buf, ptr + 1, parts, dc)
  ELSE LET Store(r) ==
             IF r.val < 0 \/ r.val > 65535 THEN [ok |-> FALSE, parts |-> parts, dc |-> dc]
             ELSE IF ptr = r.end THEN [ok |-> FALSE, parts |-> parts, dc |-> dc]
             ELSE ParseHextets(buf, r.end, Append(parts, r.val), dc)
       IN Store(strtol16(buf, ptr))

\* The two loops that open the "::" (lines 145-151) on parts[0..7], kept
\* here at the positions 1..8.
RECURSIVE ShiftParts(_, _, _, _)
ShiftParts(parts, i, lo, missing) ==
  IF i < lo THEN parts
  ELSE ShiftParts([parts EXCEPT ![i + 1] = parts[i + 1 - missing]], i - 1, lo, missing)

RECURSIVE ZeroParts(_, _, _)
ZeroParts(parts, i, hi) ==
  IF i >= hi THEN parts ELSE ZeroParts([parts EXCEPT ![i + 1] = 0], i + 1, hi)

\* Variant of ExpandDoubleColon: the zeros are put after all the groups.
ExpandDoubleColon_tail(parts, partCount, dc) == parts

ExpandDoubleColon(parts, partCount, dc) ==
  LET missing == 8 - partCount
  IN ZeroParts(ShiftParts(parts, 7, dc + missing, missing), dc, dc + missing)

\* parse_ipv6_address(str, strLen, outBytes): the value returned and the
\* caller's sixteen bytes after the call.
parse_ipv6_address(str, strLen, outBytes) ==
  LET Bytes(parts) ==
        [ret |-> 1,
         outBytes |-> [b \in 1..16 |->
            IF b % 2 = 1 THEN uint8_t(parts[(b + 1) \div 2] \div 256)
            ELSE parts[b \div 2] % 256]]
      Groups(ok, dc, partCount, parts0) ==
        IF ~ok THEN [ret |-> 0, outBytes |-> outBytes]
        ELSE IF dc >= 0 /\ 8 - partCount < 0 THEN [ret |-> 0, outBytes |-> outBytes]
        ELSE IF dc < 0 /\ partCount /= 8 THEN [ret |-> 0, outBytes |-> outBytes]
        ELSE Bytes(IF dc >= 0 THEN ExpandDoubleColon(parts0, partCount, dc) ELSE parts0)
      Loop(r) ==
        Groups(r.ok, r.dc, Len(r.parts),
               [i \in 1..8 |-> IF i <= Len(r.parts) THEN r.parts[i] ELSE 0])
      Text(start, len) ==
        IF len = 0 \/ len > 39 THEN [ret |-> 0, outBytes |-> outBytes]
        ELSE Loop(ParseHextets(SubSeq(str, start + 1, start + len) \o << NUL >>,
                               1, <<>>, -1))
  IN IF strLen = 0 \/ strLen > 45 THEN [ret |-> 0, outBytes |-> outBytes]
     ELSE IF strLen >= 2 /\ str[1] = "[" /\ str[strLen] = "]"
     THEN Text(1, strLen - 2)
     ELSE Text(0, strLen)

\* Variant of parse_vless_address: no limit on the length of a domain.
parse_vless_address_nolimit(str, strLen, outBytes) ==
  LET Domain ==
        [ret |-> 1, outType |-> VLESS_ADDR_DOMAIN, outLen |-> strLen,
         outBytes |-> SubSeq(str, 1, strLen) \o SubSeq(outBytes, strLen + 1, Len(outBytes))]
      Ipv6(r6) ==
        IF r6.ret = 1
        THEN [ret |-> 1, outType |-> VLESS_ADDR_IPV6, outLen |-> 16,
              outBytes |-> r6.outBytes \o SubSeq(outBytes, 17, Len(outBytes))]
        ELSE Domain
      Ipv4(r4) ==
        IF r4.ret = 1
        THEN [ret |-> 1, outType |-> VLESS_ADDR_IPV4, outLen |-> 4,
              outBytes |-> r4.outBytes \o SubSeq(outBytes, 5, Len(outBytes))]
        ELSE Ipv6(parse_ipv6_address(str, strLen, SubSeq(outBytes, 1, 16)))
  IN Ipv4(parse_ipv4_address(str, strLen, SubSeq(outBytes, 1, 4)))

\* parse_vless_address(str, strLen, outType, outBytes, outLen): the value
\* returned and what the three results hold after the call; outType and
\* outLen are -1 when the function did not write them.
parse_vless_address(str, strLen, outBytes) ==
  LET Domain ==
        IF strLen > 255
        THEN [ret |-> 0, outType |-> -1, outLen |-> -1, outBytes |-> outBytes]
        ELSE [ret |-> 1, outType |-> VLESS_ADDR_DOMAIN, outLen |-> strLen,
              outBytes |-> SubSeq(str, 1, strLen) \o SubSeq(outBytes, strLen + 1, Len(outBytes))]
      Ipv6(r6) ==
        IF r6.ret = 1
        THEN [ret |-> 1, outType |-> VLESS_ADDR_IPV6, outLen |-> 16,
              outBytes |-> r6.outBytes \o SubSeq(outBytes, 17, Len(outBytes))]
        ELSE Domain
      Ipv4(r4) ==
        IF r4.ret = 1
        THEN [ret |-> 1, outType |-> VLESS_ADDR_IPV4, outLen |-> 4,
              outBytes |-> r4.outBytes \o SubSeq(outBytes, 5, Len(outBytes))]
        ELSE Ipv6(parse_ipv6_address(str, strLen, SubSeq(outBytes, 1, 16)))
  IN Ipv4(parse_ipv4_address(str, strLen, SubSeq(outBytes, 1, 4)))

\* The calls of the two functions: the arguments are drawn at the start, the
\* action applies the function to them.

\* An IPv6 text is groups joined by colons; an empty group between two
\* colons gives "::".  The group at position i ends in the digit of i; it
\* has four digits when wide, and one or four by turns otherwise.
MaxHextets == 9
DigitOf(i) == CHOOSE c \in Digits : DigitVal(c) = i % 10
Hextet(i, wide) ==
  IF wide THEN << "f", "0", "a", DigitOf(i) >>
  ELSE IF i % 2 = 1 THEN << DigitOf(i) >>
  ELSE << "0", "D", "b", DigitOf(i) >>

\* Groups of another shape.
OtherHextets ==
  { <<"0", "x", "1">>, <<"0", "x">>, <<"+", "1">>, <<"-", "0">>, <<"-", "1">>,
    <<" ", "1">>, <<"1", " ", "2">>, <<"0", "0", "0", "0", "1">>,
    <<"1", "0", "0", "0", "0">>, <<"f", "f", "f", "f">>, <<"g">>, <<"1", ".", "2">> }

HextetSeqs ==
  UNION { { [i \in 1..n |-> IF present[i] THEN Hextet(i, wide) ELSE <<>>] :
              present \in [1..n -> BOOLEAN], wide \in BOOLEAN } :
          n \in 1..MaxHextets }
  \cup { [i \in 1..8 |-> IF i = at THEN o ELSE Hextet(i, FALSE)] :
           at \in 1..8, o \in OtherHextets }
  \cup { << o, <<>>, <<>> >> : o \in OtherHextets }

\* The groups joined by colons.
RECURSIVE JoinColon(_)
JoinColon(gs) ==
  IF Len(gs) = 0 THEN <<>>
  ELSE IF Len(gs) = 1 THEN gs[1]
  ELSE gs[1] \o << ":" >> \o JoinColon(Tail(gs))

Brackets == { << <<>>, <<>> >>, << <<"[">>, <<"]">> >>, << <<"[">>, <<>> >> }

Parse6Calls ==
  { [Ev("call:parse_ipv6_address") EXCEPT
       !.data = b[1] \o JoinColon(gs) \o b[2], !.tup = gs,
       !.n = Len(b[1] \o JoinColon(gs) \o b[2])] :
      gs \in HextetSeqs, b \in Brackets }

\* Texts for parse_vless_address: dotted and colon texts, and names of
\* several lengths.
NameLens == {0, 1, 15, 16, 45, 46, 255, 256}
AddressTexts ==
  { Join(gs) : gs \in { g \in GroupSeqs : Len(g) \in 3..5 } }
  \cup { b[1] \o JoinColon(gs) \o b[2] :
           gs \in { g \in HextetSeqs : Len(g) \in {3, 8} }, b \in Brackets }
  \cup { [i \in 1..n |-> IF i % 4 = 0 THEN "." ELSE "a"] : n \in NameLens }

ParseAddrCalls ==
  { [Ev("call:parse_vless_address") EXCEPT !.data = t, !.n = Len(t)] : t \in AddressTexts }

\* What the caller's buffers hold before the call (16 bytes for
\* parse_ipv6_address, 255 for parse_vless_address).
OldBytes16 == [i \in 1..16 |-> 170]
OldBuffer == [i \in 1..255 |-> 170]

\* The bridge is not involved.
NoBridge ==
  /\ s_output_fn = FALSE
  /\ s_tcp_accept_fn = FALSE
  /\ s_tcp_recv_fn = FALSE
  /\ s_tcp_sent_fn = FALSE
  /\ s_tcp_err_fn = FALSE
  /\ s_udp_recv_fn = FALSE
  /\ tun_netif = "unset"
  /\ tcp_listen_pcb_v4 = NullListener
  /\ tcp_listen_pcb_v6 = NullListener
  /\ udp_listen_pcb_v4 = NullListener
  /\ udp_listen_pcb_v6 = NullListener
  /\ udp_pcbs = {}
  /\ s_current_udp_dst_port = 0
  /\ s_current_udp_dst_ip = IpZero
  /\ pcbs = [s \in Slots |-> FreePcb]
  /\ tcp_active_pcbs = <<>>
  /\ tcp_tw_pcbs = <<>>
  /\ nextFid = 1
  /\ life = [f \in Flows |-> "none"]

InitAddr ==
  /\ NoBridge
  /\ trace \in { << call >> : call \in Parse6Calls \cup ParseAddrCalls }

ParseIpv6Address ==
  /\ Len(trace) = 1
  /\ trace[1].op = "call:parse_ipv6_address"
  /\ LET Return(r) == trace \o << [Ev("ret:parse_ipv6_address") EXCEPT
                                      !.data = r.outBytes, !.n = r.ret] >>
     IN trace' = Return(parse_ipv6_address(trace[1].data, trace[1].n, OldBytes16))
  /\ UNCHANGED <<fns, tun_netif, listeners, udp_pcbs, scratch, tcpState, nextFid, life>>

ParseVlessAddress ==
  /\ Len(trace) = 1
  /\ trace[1].op = "call:parse_vless_address"
  /\ LET Return(r) == trace \o << [Ev("ret:parse_vless_address") EXCEPT
                                      !.data = r.outBytes, !.n = r.ret,
                                      !.tup = << r.outType, r.outLen >>] >>
     IN trace' = Return(parse_vless_address(trace[1].data, trace[1].n, OldBuffer))
  /\ UNCHANGED <<fns, tun_netif, listeners, udp_pcbs, scratch, tcpState, nextFid, life>>

NextAddr ==
  \/ ParseIpv6Address
  \/ ParseVlessAddress

SpecAddr == InitAddr /\ [][NextAddr]_vars

\* ------------------------------------------------------------------------
\* Properties of parse_ipv6_address and parse_vless_address.

Parsed6 == Len(trace) = 2 /\ trace[2].op = "ret:parse_ipv6_address"

\* The text between the brackets, when both are there.
Bracketed(text) == Len(text) >= 2 /\ text[1] = "[" /\ text[Len(text)] = "]"
Unbracketed(text) == text = <<>> \/ (text[1] /= "[" /\ text[Len(text)] /= "]")
InnerText(text) == IF Bracketed(text) THEN SubSeq(text, 2, Len(text) - 1) ELSE text

\* How many times "::" is in the text.
DoubleColons(text) ==
  Cardinality({ i \in 1..(Len(text) - 1) : text[i] = ":" /\ text[i + 1] = ":" })

\* A group is a hexadecimal value of 1 to 4 digits.
IsHextet(g) == Len(g) \in 1..4 /\ \A i \in DOMAIN g : g[i] \in HexDigits
HextetValue(g) == ReadHex(g \o << NUL >>, 1, 0).val
Explicit(gs) == SelectSeq(gs, LAMBDA g : g /= <<>>)

\* The text has colons only between two groups or in a "::".
NoStrayColon(text) ==
  /\ text /= <<>>
  /\ text[1] = ":" => (Len(text) >= 2 /\ text[2] = ":")
  /\ text[Len(text)] = ":" => (Len(text) >= 2 /\ text[Len(text) - 1] = ":")

\* Groups of 1 to 4 hexadecimal digits, k of them, and one "::".
Elided(gs, k) ==
  /\ DoubleColons(JoinColon(gs)) = 1
  /\ NoStrayColon(JoinColon(gs))
  /\ Len(Explicit(gs)) = k
  /\ \A i \in 1..k : IsHextet(Explicit(gs)[i])

\* Eight groups of 1 to 4 hexadecimal digits and no "::".
Full(gs) == Len(gs) = 8 /\ \A i \in 1..8 : IsHextet(gs[i])

\* The sixteen bytes of eight group values, the high byte first.
BigEndian(values) ==
  [b \in 1..16 |-> IF b % 2 = 1 THEN values[(b + 1) \div 2] \div 256
                   ELSE values[b \div 2] % 256]

\* The groups before the "::", the zero groups, the groups after it.
Expanded(gs) ==
  LET at == CHOOSE i \in DOMAIN gs : gs[i] = <<>> /\ \A j \in 1..(i - 1) : gs[j] /= <<>>
      before == Explicit(SubSeq(gs, 1, at - 1))
      after == Explicit(SubSeq(gs, at + 1, Len(gs)))
  IN [i \in 1..8 |->
        IF i <= Len(before) THEN HextetValue(before[i])
        ELSE IF i <= 8 - Len(after) THEN 0
        ELSE HextetValue(after[i - (8 - Len(after))])]

Plainly(text) == Bracketed(text) \/ Unbracketed(text)

\* C21 as stated: for every IPv6 text with k <= 8 hexadecimal groups and
\* exactly one "::", with or without enclosing brackets, parse_ipv6_address
\* returns 1 and the sixteen bytes are the groups before the "::", then
\* 8 - k zero groups, then the groups after it, each group as two
\* big-endian bytes; eight groups and no "::" give the eight groups in order.
C21_Stated_ElidedTextParsed ==
  Parsed6 =>
    LET gs == trace[1].tup IN
    /\ (Plainly(trace[1].data) /\ \E k \in 0..8 : Elided(gs, k)) =>
         (trace[2].n = 1 /\ trace[2].data = BigEndian(Expanded(gs)))
    /\ (Plainly(trace[1].data) /\ Full(gs)) =>
         (trace[2].n = 1 /\ trace[2].data = BigEndian([i \in 1..8 |-> HextetValue(gs[i])]))

\* C21 (amended): the same for the texts that have at most 39 characters
\* between the brackets.
C21_ElidedTextParsed ==
  Parsed6 =>
    LET gs == trace[1].tup IN
    /\ (/\ Plainly(trace[1].data)
        /\ Len(InnerText(trace[1].data)) <= 39
        /\ \E k \in 0..8 : Elided(gs, k)) =>
         (trace[2].n = 1 /\ trace[2].data = BigEndian(Expanded(gs)))
    /\ (Plainly(trace[1].data) /\ Full(gs)) =>
         (trace[2].n = 1 /\ trace[2].data = BigEndian([i \in 1..8 |-> HextetValue(gs[i])]))

\* "[1:0Db2::0Db4:5]" has been parsed: two groups, four zero groups, two
\* groups.
C21_BracketedElisionParsed ==
  /\ Parsed6
  /\ trace[1].data = <<"[", "1", ":", "0", "D", "b", "2", ":", ":",
                       "0", "D", "b", "4", ":", "5", "]">>
  /\ trace[2].n = 1
  /\ trace[2].data = <<0, 1, 13, 178, 0, 0, 0, 0, 0, 0, 0, 0, 13, 180, 0, 5>>

\* C22: parse_ipv6_address returns 0 for every text with more than one
\* "::", with a group count that is not 8 (too few groups and no "::", or
\* text going on after the eighth group), or with a group that is not a
\* hexadecimal value of 1 to 4 digits (five or more digits, a sign, a "0x"
\* prefix, an empty group from a stray colon); and whenever it returns 0 the
\* caller's bytes are what they were.
C22_OnlyIpv6TextsParse ==
  Parsed6 =>
    LET gs == trace[1].tup
        text == JoinColon(gs)
        k == Len(Explicit(gs))
    IN /\ (\/ ~Plainly(trace[1].data)
           \/ DoubleColons(text) > 1
           \/ (DoubleColons(text) = 0 /\ k /= 8)
           \/ k > 8
           \/ \E i \in 1..k : ~IsHextet(Explicit(gs)[i])
           \/ ~NoStrayColon(text)) => trace[2].n = 0
       /\ trace[2].n = 0 => trace[2].data = OldBytes16

ParsedAddr == Len(trace) = 2 /\ trace[2].op = "ret:parse_vless_address"

\* C23: parse_vless_address gives IPv4 with length 4 exactly when
\* parse_ipv4_address accepts the text, IPv6 with length 16 exactly when it
\* does not and parse_ipv6_address accepts it, and otherwise a Domain of
\* length strLen holding the bytes of the text; it returns 0 only for a
\* domain of more than 255 bytes, so the length matches the tag (4, 16, or
\* at most 255).
C23_Ipv4ThenIpv6ThenDomain ==
  ParsedAddr =>
    LET str == trace[1].data
        strLen == trace[1].n
        r4 == parse_ipv4_address(str, strLen, SubSeq(OldBuffer, 1, 4))
        r6 == parse_ipv6_address(str, strLen, SubSeq(OldBuffer, 1, 16))
        ret == trace[2].n
        outType == trace[2].tup[1]
        outLen == trace[2].tup[2]
        outBytes == trace[2].data
    IN /\ ret = 0 <=> (r4.ret = 0 /\ r6.ret = 0 /\ strLen > 255)
       /\ ret = 1 =>
            /\ outType = VLESS_ADDR_IPV4 <=> r4.ret = 1
            /\ outType = VLESS_ADDR_IPV6 <=> (r4.ret = 0 /\ r6.ret = 1)
            /\ outType = VLESS_ADDR_DOMAIN <=> (r4.ret = 0 /\ r6.ret = 0)
            /\ outType = VLESS_ADDR_IPV4 =>
                 (outLen = 4 /\ SubSeq(outBytes, 1, 4) = r4.outBytes)
            /\ outType = VLESS_ADDR_IPV6 =>
                 (outLen = 16 /\ SubSeq(outBytes, 1, 16) = r6.outBytes)
            /\ outType = VLESS_ADDR_DOMAIN =>
                 (outLen = strLen /\ outLen <= 255 /\ SubSeq(outBytes, 1, outLen) = str)

\* "::3" has been parsed as an IPv6 address of 16 bytes; the rest of the
\* caller's buffer is what it was.
C23_ColonTextIsIpv6 ==
  /\ ParsedAddr
  /\ trace[1].data = <<":", ":", "3">>
  /\ trace[2].n = 1
  /\ trace[2].tup = << VLESS_ADDR_IPV6, 16 >>
  /\ SubSeq(trace[2].data, 1, 17) = <<0, 0, 0, 0, 0, 0, 0, 0, 0, 0, 0, 0, 0, 0, 0, 3, 170>>

\* ------------------------------------------------------------------------
\* Packet/CPacket.c: the TLS utility functions.

\* a ^ b and a | b on unsigned values, bit by bit.
RECURSIVE BitXor_or(_, _)
BitXor_or(a, b) ==
  IF a = 0 THEN b ELSE IF b = 0 THEN a
  ELSE (IF a % 2 = 1 \/ b % 2 = 1 THEN 1 ELSE 0) + 2 * BitXor_or(a \div 2, b \div 2)

RECURSIVE BitXor(_, _)
BitXor(a, b) ==
  IF a = 0 THEN b ELSE IF b = 0 THEN a
  ELSE (((a % 2) + (b % 2)) % 2) + 2 * BitXor(a \div 2, b \div 2)

RECURSIVE BitOr(_, _)
BitOr(a, b) ==
  IF a = 0 THEN b ELSE IF b = 0 THEN a
  ELSE (IF a % 2 = 1 \/ b % 2 = 1 THEN 1 ELSE 0) + 2 * BitOr(a \div 2, b \div 2)

\* A uint64_t is kept as four 16-bit limbs, the most significant first.
\* (uint8_t)(seqNum >> shift), for the shifts of xor_nonce_with_seq
\* (multiples of 8).
ShiftedByte(seqNum, shift) ==
  LET limb == seqNum[4 - (shift \div 16)]
  IN uint8_t(IF shift % 16 = 8 THEN limb \div U8Range ELSE limb)

\* Variant of xor_nonce_with_seq: the least significant byte first.
xor_nonce_with_seq_le(nonce, seqNum) ==
  [i \in 1..Len(nonce) |->
     IF i >= 5 /\ i <= 12 THEN BitXor(nonce[i], ShiftedByte(seqNum, 8 * (i - 5)))
     ELSE nonce[i]]

\* xor_nonce_with_seq(nonce, seqNum): the nonce after the call; nonce[4 + k]
\* of the code is nonce[5 + k] here.
xor_nonce_with_seq(nonce, seqNum) ==
  [i \in 1..Len(nonce) |->
     CASE i = 5 -> BitXor(nonce[5], ShiftedByte(seqNum, 56))
       [] i = 6 -> BitXor(nonce[6], ShiftedByte(seqNum, 48))
       [] i = 7 -> BitXor(nonce[7], ShiftedByte(seqNum, 40))
       [] i = 8 -> BitXor(nonce[8], ShiftedByte(seqNum, 32))
       [] i = 9 -> BitXor(nonce[9], ShiftedByte(seqNum, 24))
       [] i = 10 -> BitXor(nonce[10], ShiftedByte(seqNum, 16))
       [] i = 11 -> BitXor(nonce[11], ShiftedByte(seqNum, 8))
       [] i = 12 -> BitXor(nonce[12], ShiftedByte(seqNum, 0))
       [] OTHER -> nonce[i]]

\* Variant of parse_tls_header: the length is read low byte first.
parse_tls_header_le(buffer, bufferLen, old) ==
  IF bufferLen < 5 THEN [ret |-> 0, outContentType |-> old[1], outRecordLen |-> old[2]]
  ELSE [ret |-> 1, outContentType |-> buffer[1],
        outRecordLen |-> u16_t(BitOr(buffer[5] * U8Range, buffer[4]))]

\* parse_tls_header(buffer, bufferLen, outContentType, outRecordLen): the
\* value returned and the two results after the call; old is what they held
\* before.
parse_tls_header(buffer, bufferLen, old) ==
  IF bufferLen < 5 THEN [ret |-> 0, outContentType |-> old[1], outRecordLen |-> old[2]]
  ELSE [ret |-> 1, outContentType |-> buffer[1],
        outRecordLen |-> u16_t(BitOr(buffer[4] * U8Range, buffer[5]))]

\* while (i >= 0 && data[i] == 0) i--; data[i] of the code is data[i + 1].
RECURSIVE ScanBack(_, _)
ScanBack(data, i) == IF i >= 0 /\ data[i + 1] = 0 THEN ScanBack(data, i - 1) ELSE i

\* Variant of find_tls13_content_end: from 8 bytes on the last byte is taken
\* as the content type, zero or not.
find_tls13_content_end_last(data, length, old) ==
  IF length = 0 THEN [ret |-> -1, outContentType |-> old]
  ELSE IF length >= 8
  THEN [ret |-> length - 1, outContentType |-> data[length]]
  ELSE LET i == ScanBack(data, length - 1)
       IN IF i < 0 THEN [ret |-> -1, outContentType |-> old]
          ELSE [ret |-> i, outContentType |-> data[i + 1]]

\* find_tls13_content_end(data, length, outContentType): the value returned
\* and the content type after the call; old is what it held before.
find_tls13_content_end(data, length, old) ==
  IF length = 0 THEN [ret |-> -1, outContentType |-> old]
  ELSE IF length >= 8 /\ data[length] /= 0
  THEN [ret |-> length - 1, outContentType |-> data[length]]
  ELSE LET i == ScanBack(data, length - 1)
       IN IF i < 0 THEN [ret |-> -1, outContentType |-> old]
          ELSE [ret |-> i, outContentType |-> data[i + 1]]

\* tls13_unwrap_content(data, length, outContentType).
tls13_unwrap_content(data, length, old) ==
  IF length = 0 THEN [ret |-> -1, outContentType |-> old]
  ELSE LET r == find_tls13_content_end(data, length, old)
       IN IF r.ret < 0 THEN [ret |-> -1, outContentType |-> r.outContentType]
          ELSE [ret |-> r.ret, outContentType |-> r.outContentType]

\* The calls: buffers of up to MaxBody bytes, nonces of 12 bytes and
\* sequence numbers whose limbs are drawn from a few values.
MaxBody == 8
ByteValues == {0, 22, 65}
Bodies == UNION { [1..n -> ByteValues] : n \in 0..MaxBody }
Nonces == { [i \in 1..12 |-> 0], [i \in 1..12 |-> 255], [i \in 1..12 |-> 17 * i] }
Limbs == {0, 1, 258, 43981, 65535}
SeqNums == [1..4 -> Limbs]

\* What the results hold before a call: << content type, record length >>.
OldOut == << 170, 43690 >>

PacketCalls ==
  { [Ev("call:parse_tls_header") EXCEPT !.data = b, !.n = Len(b)] :
      b \in { x \in Bodies : Len(x) <= 6 } }
  \cup { [Ev(op) EXCEPT !.data = b, !.n = Len(b)] :
           b \in Bodies, op \in {"call:find_tls13_content_end", "call:tls13_unwrap_content"} }
  \cup { [Ev("call:xor_nonce_with_seq") EXCEPT !.data = nonce, !.tup = seqNum] :
           nonce \in Nonces, seqNum \in SeqNums }

InitPacket ==
  /\ NoBridge
  /\ trace \in { << call >> : call \in PacketCalls }

ParseTlsHeader ==
  /\ Len(trace) = 1
  /\ trace[1].op = "call:parse_tls_header"
  /\ LET r == parse_tls_header(trace[1].data, trace[1].n, OldOut)
     IN trace' = trace \o << [Ev("ret:parse_tls_header") EXCEPT
                               !.n = r.ret, !.tup = << r.outContentType, r.outRecordLen >>] >>
  /\ UNCHANGED <<fns, tun_netif, listeners, udp_pcbs, scratch, tcpState, nextFid, life>>

FindTls13ContentEnd ==
  /\ Len(trace) = 1
  /\ trace[1].op = "call:find_tls13_content_end"
  /\ LET r == find_tls13_content_end(trace[1].data, trace[1].n, OldOut[1])
     IN trace' = trace \o << [Ev("ret:find_tls13_content_end") EXCEPT
                               !.n = r.ret, !.tup = << r.outContentType >>] >>
  /\ UNCHANGED <<fns, tun_netif, listeners, udp_pcbs, scratch, tcpState, nextFid, life>>

Tls13UnwrapContent ==
  /\ Len(trace) = 1
  /\ trace[1].op = "call:tls13_unwrap_content"
  /\ LET r == tls13_unwrap_content(trace[1].data, trace[1].n, OldOut[1])
     IN trace' = trace \o << [Ev("ret:tls13_unwrap_content") EXCEPT
                               !.n = r.ret, !.tup = << r.outContentType >>] >>
  /\ UNCHANGED <<fns, tun_netif, listeners, udp_pcbs, scratch, tcpState, nextFid, life>>

\* xor_nonce_with_seq, called once and then once more on its own result
\* with the same sequence number.
XorNonceWithSeq ==
  /\ Len(trace) \in {1, 2}
  /\ trace[1].op = "call:xor_nonce_with_seq"
  /\ trace' = trace \o << [Ev("ret:xor_nonce_with_seq") EXCEPT
                            !.data = xor_nonce_with_seq(trace[Len(trace)].data, trace[1].tup),
                            !.tup = trace[1].tup] >>
  /\ UNCHANGED <<fns, tun_netif, listeners, udp_pcbs, scratch, tcpState, nextFid, life>>

NextPacket ==
  \/ ParseTlsHeader
  \/ FindTls13ContentEnd
  \/ Tls13UnwrapContent
  \/ XorNonceWithSeq

SpecPacket == InitPacket /\ [][NextPacket]_vars

\* ------------------------------------------------------------------------
\* Properties of the functions of CPacket.c.

Returned(op) == Len(trace) >= 2 /\ trace[2].op = op

\* C24: with fewer than 5 bytes parse_tls_header returns 0 and writes
\* neither result; with 5 bytes or more it returns 1, the content type is
\* the byte at offset 0 and the record length is the big-endian 16-bit value
\* of the bytes at offsets 3 and 4, whatever the bytes at offsets 1 and 2
\* and after offset 4 are.
C24_HeaderNeedsFiveBytes ==
  Returned("ret:parse_tls_header") =>
    LET buffer == trace[1].data IN
    /\ trace[1].n < 5 => (trace[2].n = 0 /\ trace[2].tup = OldOut)
    /\ trace[1].n >= 5 =>
         /\ trace[2].n = 1
         /\ trace[2].tup = << buffer[1], 256 * buffer[4] + buffer[5] >>

\* The header 16 41 00 16 41 followed by one more byte has been parsed:
\* content type 0x16, record length 0x1641.
C24_SixByteHeaderParsed ==
  /\ Returned("ret:parse_tls_header")
  /\ trace[1].data = <<22, 65, 0, 22, 65, 0>>
  /\ trace[2].n = 1
  /\ trace[2].tup = <<22, 5697>>

\* The positions (from 1) of the bytes of the body that are not zero.
NonZero(body) == { i \in 1..Len(body) : body[i] /= 0 }
Last(S) == CHOOSE i \in S : \A j \in S : j <= i

\* C25: tls13_unwrap_content returns -1 exactly when the body is empty or
\* all zero; otherwise, with i the index (from 0) of the last byte that is
\* not zero, it returns i and the content type is body[i]; a body of 8
\* bytes or more that ends in a byte that is not zero gives what the
\* backward scan gives.
C25_UnwrapFindsLastNonZero ==
  Returned("ret:tls13_unwrap_content") =>
    LET body == trace[1].data
        ret == trace[2].n
    IN /\ ret = -1 <=> NonZero(body) = {}
       /\ NonZero(body) /= {} =>
            /\ ret = Last(NonZero(body)) - 1
            /\ trace[2].tup = << body[Last(NonZero(body))] >>
       /\ (Len(body) >= 8 /\ body[Len(body)] /= 0) =>
            ret = ScanBack(body, Len(body) - 1)

\* A body of 8 bytes that ends in the content type 0x16 has been unwrapped:
\* 7 bytes of content.
C25_UnpaddedBodyUnwrapped ==
  /\ Returned("ret:tls13_unwrap_content")
  /\ trace[1].n = 8
  /\ trace[1].data[8] = 22
  /\ trace[1].data[7] = 0
  /\ trace[2].n = 7
  /\ trace[2].tup = <<22>>

\* C26: when it succeeds find_tls13_content_end returns the index of the
\* last content byte, the byte right before the content-type byte; it
\* returns -1 when the data is empty or all zero.
C26_ReturnsIndexBeforeContentType ==
  Returned("ret:find_tls13_content_end") =>
    LET data == trace[1].data
        ret == trace[2].n
    IN /\ NonZero(data) = {} => ret = -1
       /\ NonZero(data) /= {} =>
            /\ ret = (Last(NonZero(data)) - 1) - 1
            /\ trace[2].tup = << data[Last(NonZero(data))] >>

\* Bit j of a byte, and x = a ^ b said bit by bit.
BitAt(v, j) == (v \div (2 ^ j)) % 2
IsXorOf(x, a, b) ==
  /\ x \in 0..255
  /\ \A j \in 0..7 : BitAt(x, j) = (IF BitAt(a, j) = BitAt(b, j) THEN 0 ELSE 1)

\* The eight bytes of a sequence number, the most significant first.
SeqBytes(seqNum) ==
  [k \in 1..8 |-> IF k % 2 = 1 THEN seqNum[(k + 1) \div 2] \div 256
                  ELSE seqNum[k \div 2] % 256]

\* C27: xor_nonce_with_seq leaves the bytes 0 to 3 of the nonce as they
\* were, and byte 4 + k (k = 0..7) becomes its XOR with the k-th most
\* significant byte of the sequence number.
C27_XorsBigEndianSeqIntoLastEight ==
  Returned("ret:xor_nonce_with_seq") =>
    \A c \in 2..Len(trace) :
      LET before == trace[c - 1].data
          after == trace[c].data
      IN /\ Len(after) = 12
         /\ \A i \in 1..4 : after[i] = before[i]
         /\ \A k \in 0..7 :
              IsXorOf(after[5 + k], before[5 + k], SeqBytes(trace[1].tup)[k + 1])

\* The nonce 11 22 .. cc has been XOR-ed with 0x00010102abcdffff.
C27_MixedSeqXored ==
  /\ Returned("ret:xor_nonce_with_seq")
  /\ trace[1].data = [i \in 1..12 |-> 17 * i]
  /\ trace[1].tup = <<1, 258, 43981, 65535>>
  /\ trace[2].data = <<17, 34, 51, 68, 85, 103, 118, 138, 50, 103, 68, 51>>

\* C28: xor_nonce_with_seq applied twice with the same sequence number
\* gives the nonce it started from.
C28_TwiceRestoresNonce ==
  (Returned("ret:xor_nonce_with_seq") /\ Len(trace) = 3) =>
    trace[3].data = trace[1].data

\* A nonce has been changed by the first call and restored by the second.
C28_ChangedThenRestored ==
  /\ Returned("ret:xor_nonce_with_seq")
  /\ Len(trace) = 3
  /\ trace[1].tup = <<43981, 0, 1, 65535>>
  /\ trace[2].data /= trace[1].data
  /\ trace[3].data = trace[1].data

\* ------------------------------------------------------------------------
\* Properties of tcp_accept_cb and of the registrations on a connection.

\* The accept event the return at k belongs to.
AcceptOf(k) ==
  CHOOSE j \in 1..(k - 1) :
    /\ trace[j].op = "TCP_EVENT_ACCEPT"
    /\ \A i \in (j + 1)..(k - 1) : trace[i].op /= "TCP_EVENT_ACCEPT"

\* C29: whenever tcp_accept_cb returns ERR_ABRT for a new connection, the
\* bridge has aborted that connection exactly once before returning, also
\* when no accept callback is registered, and the connection is not left in
\* the list of active connections.
C29_AbortResultMeansAborted ==
  \A k \in DOMAIN trace :
    (trace[k].op = "ret:tcp_accept_cb" /\ trace[k].err = "ERR_ABRT" /\ trace[k].fid /= 0) =>
      /\ Cardinality({ i \in Inside(trace, AcceptOf(k), k, {"tcp_abort"}) :
                         trace[i].fid = trace[k].fid }) = 1
      /\ \A i \in DOMAIN tcp_active_pcbs : pcbs[tcp_active_pcbs[i]].fid /= trace[k].fid

\* The bridge's three callbacks on a connection.
Registered(pcb) ==
  { x \in {"recv", "sent", "err"} :
      \/ (x = "recv" /\ pcb.recv = "tcp_recv_cb")
      \/ (x = "sent" /\ pcb.sent = "tcp_sent_cb")
      \/ (x = "err" /\ pcb.errf = "tcp_err_cb") }

\* C30: in every state a connection has the bridge's recv, sent and err
\* callbacks registered if and only if its callback argument is a handle
\* (not NULL): all three with a handle, none without; so tcp_recv_cb is
\* never entered with a NULL handle and never returns ERR_ABRT.
C30_CallbacksIffHandle ==
  /\ \A s \in Slots :
       pcbs[s].state /= "FREE" =>
         /\ pcbs[s].callback_arg /= NULL => Registered(pcbs[s]) = {"recv", "sent", "err"}
         /\ pcbs[s].callback_arg = NULL => Registered(pcbs[s]) = {}
  /\ \A k \in DOMAIN trace :
       /\ trace[k].op = "call:tcp_recv_cb" => trace[k].arg /= NULL
       /\ trace[k].op = "ret:tcp_recv_cb" => trace[k].err /= "ERR_ABRT"

\* tcp_recv_cb has been entered for a connection that still holds its
\* handle and its three callbacks.
C30_RecvEnteredWithHandle ==
  \E k \in DOMAIN trace : \E s \in Slots :
    /\ trace[k].op = "call:tcp_recv_cb"
    /\ trace[k].arg /= NULL
    /\ pcbs[s].state /= "FREE"
    /\ pcbs[s].fid = trace[k].fid
    /\ pcbs[s].callback_arg = trace[k].arg
    /\ Registered(pcbs[s]) = {"recv", "sent", "err"}


\* ------------------------------------------------------------------------
\* The packet buffer of a datagram sent by the relay
\* ------------------------------------------------------------------------
\* C31: in a call of lwip_bridge_udp_sendto with data and a positive len,
\* for len above 65535 too, the bytes copied into the packet buffer are at
\* most the bytes allocated for it, and the packet handed to the engine
\* holds exactly the len bytes of the caller, the first of them first.
C31_CopyWithinAllocationAndWholeData ==
  (trace /= <<>> /\ trace[1].op = "lwip_bridge_udp_sendto"
     /\ trace[1].err /= "NULL" /\ trace[1].n > 0) =>
    LET allocs == Succeeded(trace, {"pbuf_alloc"})
    IN /\ \A k \in EventsOf(trace, {"memcpy"}) :
            \E a \in allocs : a < k /\ trace[k].n <= trace[a].n
       /\ \A k \in EventsOf(trace, {"udp_sendto_if_src"}) :
            /\ trace[k].arg = trace[1].arg
            /\ trace[k].n = trace[1].n

====
